---- MODULE Spec2Model ----
(***************************************************************************)
(* Model of the DataDome fraud SDK (package fraudsdkgo): one Client, the   *)
(* calls Validate / Collect (with or without RequestMetadata) made on it,  *)
(* the dispatcher performRequest and the per-event response handling.      *)
(*                                                                         *)
(* Strings the code inspects character by character (endpoint, peer        *)
(* address) are sequences of one-character strings.  Go errors are the     *)
(* sequence of the messages of their %w chain, outermost first; the nil    *)
(* error is the empty sequence.                                            *)
(***************************************************************************)
EXTENDS Integers, Sequences, FiniteSets, TLC

VARIABLES
    client,     \* the *Client built by NewClient
    pc,         \* position of the current call: idle, inflight, reading, done
    call,       \* inputs of the current call: event, operation, request, metadata
    sent,       \* requests handed to c.httpClient.Do by the current call
    doErr,      \* error returned by c.httpClient.Do (NoTransportErr if none)
    httpResp,   \* *http.Response obtained from Do, with the state of its Body
    readErr,    \* error returned by io.ReadAll(resp.Body) ("" if none)
    ret,        \* values returned to the caller of the current call
    ncalls,     \* calls started on the client so far
    nposts,     \* requests handed to c.httpClient.Do so far, over all calls
    arg,        \* arguments of the function a specification of one function applies
    res         \* what that function returned

\* the state of the client and of its current call
callVars == <<client, pc, call, sent, doErr, httpResp, readErr, ret, ncalls, nposts>>

\* the state of the specifications of one function
fnVars == <<arg, res>>

vars == <<client, pc, call, sent, doErr, httpResp, readErr, ret, ncalls, nposts, arg, res>>

----------------------------------------------------------------------------
(* Bounds *)

MaxCalls == 2

----------------------------------------------------------------------------
(* Character sequences *)

HasPrefix(s, p) == Len(s) >= Len(p) /\ SubSeq(s, 1, Len(p)) = p

Contains(s, ch) == \E i \in 1..Len(s) : s[i] = ch

\* index of the last occurrence of ch in s, 0 if there is none
LastIndex(s, ch) ==
    IF Contains(s, ch)
    THEN CHOOSE i \in 1..Len(s) : s[i] = ch /\ \A j \in (i+1)..Len(s) : s[j] # ch
    ELSE 0

\* index of the first occurrence of ch in s, 0 if there is none
FirstIndex(s, ch) ==
    IF Contains(s, ch)
    THEN CHOOSE i \in 1..Len(s) : s[i] = ch /\ \A j \in 1..(i-1) : s[j] # ch
    ELSE 0

----------------------------------------------------------------------------
(* Errors *)

NilErr == <<>>

ErrKeyMissing == "FraudAPIKey must be defined"
ErrRequestTimeout == "request to Account Protect API timeout"
ErrWrongTimeoutValue == "Timeout must be a positive integer"

\* fmt.Errorf("msg: %w", err)
Wrap(msg, err) == <<msg>> \o err

\* errors.Is(err, target) for a sentinel target
ErrorsIs(err, target) == \E i \in 1..Len(err) : err[i] = target

----------------------------------------------------------------------------
(* net.SplitHostPort, as used by getIP on r.RemoteAddr *)

SplitErr(msg) == [host |-> <<>>, port |-> <<>>, err |-> <<msg>>]

SplitTail(hostport, i, host, j, k) ==
    IF Contains(SubSeq(hostport, j, Len(hostport)), "[")
    THEN SplitErr("unexpected '[' in address")
    ELSE IF Contains(SubSeq(hostport, k, Len(hostport)), "]")
    THEN SplitErr("unexpected ']' in address")
    ELSE [host |-> host, port |-> SubSeq(hostport, i + 1, Len(hostport)), err |-> NilErr]

SplitHostPort(hostport) ==
    LET i == LastIndex(hostport, ":") IN
    IF i = 0 THEN SplitErr("missing port in address")
    ELSE IF hostport[1] = "["
    THEN LET end == FirstIndex(hostport, "]") IN
         IF end = 0 THEN SplitErr("missing ']' in address")
         ELSE IF end = Len(hostport) THEN SplitErr("missing port in address")
         ELSE IF end + 1 = i
              THEN SplitTail(hostport, i, SubSeq(hostport, 2, end - 1), 2, end + 1)
         ELSE IF hostport[end + 1] = ":" THEN SplitErr("too many colons in address")
         ELSE SplitErr("missing port in address")
    ELSE LET host == SubSeq(hostport, 1, i - 1) IN
         IF Contains(host, ":") THEN SplitErr("too many colons in address")
         ELSE SplitTail(hostport, i, host, 1, 1)

\* getIP, were the whole peer address taken when it does not split
getIPNoError(r) ==
    LET sp == SplitHostPort(r.RemoteAddr) IN
    [ip |-> IF sp.err # NilErr THEN r.RemoteAddr ELSE sp.host, err |-> NilErr]

\* getIP: the host part of r.RemoteAddr
getIP(r) ==
    LET sp == SplitHostPort(r.RemoteAddr) IN [ip |-> sp.host, err |-> sp.err]

----------------------------------------------------------------------------
(* Truncation of the fields of the fingerprint *)

\* the keys of the truncation table
ApiFields ==
    { "Accept", "AcceptCharset", "AcceptEncoding", "AcceptLanguage", "ClientID",
      "Connection", "ContentType", "From", "Host", "Origin", "Referer", "Request",
      "SecCHDeviceMemory", "SecCHUA", "SecCHUAArch", "SecCHUAFullVersionList",
      "SecCHUAMobile", "SecCHUAModel", "SecCHUAPlatform", "ServerHostname",
      "UserAgent", "XForwardedForIP", "XRealIP" }

\* the limit of a key: positive keeps the head, negative keeps the tail, 0 is no limit
getTruncationSize(key) ==
    CASE key \in {"SecCHDeviceMemory", "SecCHUAMobile"} -> 8
      [] key = "SecCHUAArch" -> 16
      [] key = "SecCHUAPlatform" -> 32
      [] key = "ContentType" -> 64
      [] key \in {"ClientID", "AcceptCharset", "AcceptEncoding", "Connection", "From",
                  "SecCHUA", "SecCHUAModel", "XRealIP"} -> 128
      [] key \in {"AcceptLanguage", "SecCHUAFullVersionList"} -> 256
      [] key \in {"Origin", "ServerHostname", "Accept", "Host"} -> 512
      [] key = "XForwardedForIP" -> -512
      [] key = "UserAgent" -> 768
      [] key = "Referer" -> 1024
      [] key = "Request" -> 2048
      [] OTHER -> 0

\* truncateValue, were the head kept whatever the sign of the limit
truncateValueKeepsHead(key, value) ==
    IF value = <<>> THEN <<>>
    ELSE LET limit == getTruncationSize(key)
             size == IF limit < 0 THEN -1 * limit ELSE limit
         IN IF limit # 0 /\ Len(value) > size THEN SubSeq(value, 1, size) ELSE value

\* truncateValue, were the cut one character late
truncateValueOneMore(key, value) ==
    IF value = <<>> THEN <<>>
    ELSE LET limit == getTruncationSize(key) IN
         IF limit < 0 /\ Len(value) > (-1 * limit)
         THEN SubSeq(value, Len(value) - (-1 * limit) + 1, Len(value))
         ELSE IF limit > 0 /\ Len(value) > limit + 1
         THEN SubSeq(value, 1, limit + 1)
         ELSE value

\* value[len(value)-limit:] under a negative limit, value[:limit] under a positive one
truncateValue(key, value) ==
    IF value = <<>> THEN <<>>
    ELSE LET limit == getTruncationSize(key) IN
         IF limit < 0 /\ Len(value) > (-1 * limit)
         THEN SubSeq(value, Len(value) - (-1 * limit) + 1, Len(value))
         ELSE IF limit > 0 /\ Len(value) > limit
         THEN SubSeq(value, 1, limit)
         ELSE value

\* a nil *string
NilStringPtr == [isNil |-> TRUE, v |-> <<>>]

\* &value
StringPtr(value) == [isNil |-> FALSE, v |-> value]

\* truncatePointerValue, were the value left as it is
truncatePointerValueWhole(key, value) ==
    IF value # <<>> THEN StringPtr(value) ELSE NilStringPtr

\* nil for the empty string, a pointer to the truncated value otherwise
truncatePointerValue(key, value) ==
    IF value # <<>> THEN StringPtr(truncateValue(key, value)) ELSE NilStringPtr

----------------------------------------------------------------------------
(* What is read off the inbound request *)

\* r.Header.Get(name): "" when the request has no such header
HeaderGet(r, name) == IF name \in DOMAIN r.Header THEN r.Header[name] ELSE <<>>

UpperCase ==
    <<"A", "B", "C", "D", "E", "F", "G", "H", "I", "J", "K", "L", "M",
      "N", "O", "P", "Q", "R", "S", "T", "U", "V", "W", "X", "Y", "Z">>

LowerCase ==
    <<"a", "b", "c", "d", "e", "f", "g", "h", "i", "j", "k", "l", "m",
      "n", "o", "p", "q", "r", "s", "t", "u", "v", "w", "x", "y", "z">>

\* the case folding of one ASCII character
Fold(ch) ==
    IF \E i \in 1..Len(UpperCase) : UpperCase[i] = ch
    THEN LowerCase[CHOOSE i \in 1..Len(UpperCase) : UpperCase[i] = ch]
    ELSE ch

\* strings.EqualFold, on ASCII strings
EqualFold(s, t) ==
    /\ Len(s) = Len(t)
    /\ \A i \in 1..Len(s) : Fold(s[i]) = Fold(t[i])

Digits == <<"0", "1", "2", "3", "4", "5", "6", "7", "8", "9">>

IsDigit(ch) == \E d \in 1..Len(Digits) : Digits[d] = ch

DigitValue(ch) == (CHOOSE d \in 1..Len(Digits) : Digits[d] = ch) - 1

RECURSIVE DecimalValue(_)
DecimalValue(s) ==
    IF s = <<>> THEN 0
    ELSE DecimalValue(SubSeq(s, 1, Len(s) - 1)) * 10 + DigitValue(s[Len(s)])

\* strconv.Atoi, on strings whose value fits an int: an optional sign, then digits
Atoi(s) ==
    LET signed == s # <<>> /\ s[1] \in {"+", "-"}
        digits == IF signed THEN Tail(s) ELSE s
    IN IF digits = <<>> \/ \E i \in 1..Len(digits) : ~IsDigit(digits[i])
       THEN [n |-> 0, err |-> TRUE]
       ELSE [n |-> IF s[1] = "-" THEN -1 * DecimalValue(digits) ELSE DecimalValue(digits),
             err |-> FALSE]

\* r.Cookie(name): the first cookie of that name, http.ErrNoCookie if there is none
Cookie(r, name) ==
    IF \E i \in 1..Len(r.Cookies) : r.Cookies[i].Name = name
    THEN [Value |-> r.Cookies[CHOOSE i \in 1..Len(r.Cookies) :
                                  /\ r.Cookies[i].Name = name
                                  /\ \A j \in 1..(i-1) : r.Cookies[j].Name # name].Value,
          err |-> FALSE]
    ELSE [Value |-> <<>>, err |-> TRUE]

\* getClientId, were the cookie read before the header
getClientIdCookieFirst(r) ==
    LET cookie == Cookie(r, "datadome") IN
    IF ~cookie.err THEN cookie.Value ELSE HeaderGet(r, "x-datadome-clientid")

\* the x-datadome-clientid header if it is not empty, the datadome cookie otherwise
getClientId(r) ==
    LET clientIDHeaders == HeaderGet(r, "x-datadome-clientid")
        cookie == Cookie(r, "datadome")
    IN IF Len(clientIDHeaders) > 0 THEN clientIDHeaders
       ELSE IF ~cookie.err THEN cookie.Value
       ELSE <<>>

ProtoHTTP == <<"h", "t", "t", "p">>

ProtoHTTPS == <<"h", "t", "t", "p", "s">>

\* the x-forwarded-proto header as it was sent if it folds to http or https,
\* the TLS field of the request otherwise
getProtocol(r) ==
    LET xForwardedProto == HeaderGet(r, "x-forwarded-proto") IN
    IF EqualFold(xForwardedProto, ProtoHTTP) \/ EqualFold(xForwardedProto, ProtoHTTPS)
    THEN xForwardedProto
    ELSE IF r.TLS THEN ProtoHTTPS
    ELSE ProtoHTTP

\* the path and, if there is one, the query of the request
getURL(r) ==
    IF r.URL.RawQuery # <<>> THEN r.URL.Path \o <<"?">> \o r.URL.RawQuery ELSE r.URL.Path

\* getPort, were the Host of the request never read
getPortNoHost(r) == -1

\* the port of r.Host, -1 when there is none or it is no number
getPort(r) ==
    IF r.Host = <<>> THEN -1
    ELSE LET sp == SplitHostPort(r.Host) IN
         IF sp.err # NilErr THEN -1
         ELSE LET port == Atoi(sp.port) IN
              IF port.err THEN -1 ELSE port.n

\* a nil pointer
NilPtr == [isNil |-> TRUE, v |-> <<>>]

\* *val2 if val2 is not nil, val1 otherwise
useMetadata(val1, val2) == IF ~val2.isNil THEN val2.v ELSE val1

----------------------------------------------------------------------------
(* Client construction *)

SchemeHTTP == <<"h", "t", "t", "p", ":", "/", "/">>
SchemeHTTPS == <<"h", "t", "t", "p", "s", ":", "/", "/">>

DefaultEndpointValue ==
    SchemeHTTPS \o <<"a", "c", "c", "o", "u", "n", "t", "-", "a", "p", "i", ".",
                     "d", "a", "t", "a", "d", "o", "m", "e", ".", "c", "o">>
DefaultTimeoutValue == 1500
defaultModuleNameValue == "Fraud SDK Go"
defaultModuleVersionValue == "1.1.1"

NilClient ==
    [isNil |-> TRUE, Endpoint |-> <<>>, FraudAPIKey |-> "", Timeout |-> 0,
     httpTimeout |-> 0, moduleName |-> "", moduleVersion |-> ""]

ClientWithEndpoint(endpoint) == [opt |-> "endpoint", endpoint |-> endpoint, timeout |-> 0]
ClientWithTimeout(timeout) == [opt |-> "timeout", endpoint |-> <<>>, timeout |-> timeout]

ApplyClientOption(c, o) ==
    IF o.opt = "endpoint" THEN [c EXCEPT !.Endpoint = o.endpoint]
    ELSE [c EXCEPT !.Timeout = o.timeout]

RECURSIVE ApplyClientOptions(_, _)
ApplyClientOptions(c, options) ==
    IF options = <<>> THEN c
    ELSE ApplyClientOptions(ApplyClientOption(c, Head(options)), Tail(options))

\* the normalisation, were the scheme prepended whatever the endpoint starts with
NormalizeEndpointAlways(endpoint) == SchemeHTTPS \o endpoint

NormalizeEndpoint(endpoint) ==
    IF ~HasPrefix(endpoint, SchemeHTTP) /\ ~HasPrefix(endpoint, SchemeHTTPS)
    THEN SchemeHTTPS \o endpoint
    ELSE endpoint

\* NewClient, were the timeout not looked at
NewClientAnyTimeout(fraudApiKey, options) ==
    LET c == ApplyClientOptions(
                 [isNil |-> FALSE, Endpoint |-> DefaultEndpointValue,
                  FraudAPIKey |-> fraudApiKey, Timeout |-> DefaultTimeoutValue,
                  httpTimeout |-> 0, moduleName |-> defaultModuleNameValue,
                  moduleVersion |-> defaultModuleVersionValue], options) IN
    IF c.FraudAPIKey = "" THEN [c |-> NilClient, err |-> <<ErrKeyMissing>>]
    ELSE [c |-> [c EXCEPT !.httpTimeout = c.Timeout,
                          !.Endpoint = NormalizeEndpoint(c.Endpoint)],
          err |-> NilErr]

NewClient(fraudApiKey, options) ==
    LET c == ApplyClientOptions(
                 [isNil |-> FALSE, Endpoint |-> DefaultEndpointValue,
                  FraudAPIKey |-> fraudApiKey, Timeout |-> DefaultTimeoutValue,
                  httpTimeout |-> 0, moduleName |-> defaultModuleNameValue,
                  moduleVersion |-> defaultModuleVersionValue], options) IN
    IF c.FraudAPIKey = "" THEN [c |-> NilClient, err |-> <<ErrKeyMissing>>]
    ELSE IF c.Timeout <= 0 THEN [c |-> NilClient, err |-> <<ErrWrongTimeoutValue>>]
    ELSE [c |-> [c EXCEPT !.httpTimeout = c.Timeout,
                          !.Endpoint = NormalizeEndpoint(c.Endpoint)],
          err |-> NilErr]

\* an ASCII control character: net/url refuses to parse a URL that contains one
CTL == "\n"

ApiKeys == {"", "your-fraud-api-key"}

ClientOptionLists ==
    { <<>>,
      <<ClientWithEndpoint(<<"a", ".", "c", "o">>)>>,
      <<ClientWithEndpoint(SchemeHTTP \o <<"a", ".", "c", "o">>), ClientWithTimeout(1)>>,
      <<ClientWithEndpoint(<<"a", CTL, "c", "o">>)>>,
      <<ClientWithTimeout(0)>> }

\* the clients NewClient hands out (it returns nil with an error otherwise)
Clients ==
    { NewClient(k, o).c : k \in ApiKeys, o \in ClientOptionLists } \ {NilClient}

----------------------------------------------------------------------------
(* Responses *)

Allow == "allow"
Deny == "deny"
Review == "review"
Challenge == "challenge"

OK == "ok"
Failure == "failure"
Timeout == "timeout"

\* a nil *string
NilString == "<nil>"

\* a nil *ResponsePayload
NilResponse ==
    [isNil |-> TRUE, Action |-> "", Status |-> "", Message |-> NilString, Errors |-> <<>>]

\* a nil *ErrorResponsePayload
NilErrorResponse == [isNil |-> TRUE, Message |-> NilString, Errors |-> <<>>]

\* &ResponsePayload{SuccessResponsePayload{Action: action, Status: status}}
ResponsePayload(action, status) ==
    [isNil |-> FALSE, Action |-> action, Status |-> status,
     Message |-> NilString, Errors |-> <<>>]

(* A response body.  valid: the bytes are a JSON object; mistyped: the keys   *)
(* whose JSON value does not have the type of the Go field; the other fields  *)
(* are the values of the keys action, Status, message and errors (zero value  *)
(* when the key is missing).  SuccessResponsePayload.Status has no json tag,  *)
(* so encoding/json fills it from a key named status.                         *)
Body(raw, valid, mistyped, action, status, message, errs) ==
    [raw |-> raw, valid |-> valid, mistyped |-> mistyped, action |-> action,
     status |-> status, message |-> message, errors |-> errs]

\* a nil []byte
NoBody == Body("", FALSE, {}, "", "", NilString, <<>>)

FieldErrors == << [Field |-> "account", Error |-> "invalid"] >>

Bodies ==
    { NoBody,
      Body("<html>", FALSE, {}, "", "", NilString, <<>>),
      Body("{}", TRUE, {}, "", "", NilString, <<>>),
      Body("{action:allow}", TRUE, {}, Allow, "", NilString, <<>>),
      Body("{action:deny}", TRUE, {}, Deny, "", NilString, <<>>),
      Body("{action:review}", TRUE, {}, Review, "", NilString, <<>>),
      Body("{action:challenge,status:timeout}", TRUE, {}, Challenge, Timeout, NilString, <<>>),
      Body("{message:blocked,errors:[{field:account,error:invalid}]}",
           TRUE, {}, "", "", "blocked", FieldErrors),
      Body("{action:deny,status:ok,message:blocked,errors:[{field:account,error:invalid}]}",
           TRUE, {}, Deny, OK, "blocked", FieldErrors),
      Body("{action:5,message:blocked}", TRUE, {"action"}, "", "", "blocked", <<>>),
      Body("{action:deny,message:5}", TRUE, {"message"}, Deny, "", NilString, <<>>) }

StatusCodes == {199, 200, 204, 299, 300, 403, 500}

ResponsePayloadKeys == {"action", "status", "message", "errors"}
ErrorResponsePayloadKeys == {"message", "errors"}

\* json.Unmarshal(response, &resp) succeeds
Unmarshals(response, keys) == response.valid /\ response.mistyped \cap keys = {}

\* decodeResponse[ResponsePayload], were it to swallow the error of json.Unmarshal
decodeResponsePayloadLenient(response) ==
    IF ~Unmarshals(response, ResponsePayloadKeys)
    THEN [resp |-> ResponsePayload("", ""), err |-> NilErr]
    ELSE [resp |-> [isNil |-> FALSE, Action |-> response.action,
                    Status |-> response.status, Message |-> response.message,
                    Errors |-> response.errors],
          err |-> NilErr]

\* decodeResponse[ResponsePayload]
decodeResponsePayload(response) ==
    IF ~Unmarshals(response, ResponsePayloadKeys)
    THEN [resp |-> NilResponse, err |-> Wrap("fail to parse API's response", <<"json">>)]
    ELSE [resp |-> [isNil |-> FALSE, Action |-> response.action,
                    Status |-> response.status, Message |-> response.message,
                    Errors |-> response.errors],
          err |-> NilErr]

\* decodeResponse[ErrorResponsePayload]
decodeErrorResponsePayload(response) ==
    IF ~Unmarshals(response, ErrorResponsePayloadKeys)
    THEN [resp |-> NilErrorResponse,
          err |-> Wrap("fail to parse API's response", <<"json">>)]
    ELSE [resp |-> [isNil |-> FALSE, Message |-> response.message,
                    Errors |-> response.errors],
          err |-> NilErr]

\* handleErrorResponse, were it to decode the whole ResponsePayload of the body
handleErrorResponseKeepsAction(payload) ==
    LET d == decodeResponsePayload(payload) IN
    IF d.err # NilErr THEN ResponsePayload(Allow, Failure)
    ELSE [d.resp EXCEPT !.Status = Failure]

\* handleErrorResponse, were it to drop the decoded error detail
handleErrorResponseDropsDetail(payload) == ResponsePayload(Allow, Failure)

handleErrorResponse(payload) ==
    LET responsePayload == ResponsePayload(Allow, Failure)
        d == decodeErrorResponsePayload(payload) IN
    IF d.err # NilErr THEN responsePayload
    ELSE [responsePayload EXCEPT !.Message = d.resp.Message, !.Errors = d.resp.Errors]

----------------------------------------------------------------------------
(* The dispatcher, performRequest *)

(* The errors c.httpClient.Do returns.  Do wraps every error in *url.Error,  *)
(* which is a net.Error whose Timeout() is that of the wrapped error; chain  *)
(* is what errors.Is can see.                                                *)
TransportErr(cause, netError, timeout) ==
    [cause |-> cause, netError |-> netError, timeout |-> timeout,
     chain |-> <<"url.Error", cause>>]

NoTransportErr == [cause |-> "", netError |-> FALSE, timeout |-> FALSE, chain |-> <<>>]

ContextDeadlineExceeded == "context deadline exceeded"
ContextCanceled == "context canceled"
ClientTimeoutExceeded == "Client.Timeout exceeded while awaiting headers"
IOTimeout == "dial tcp: i/o timeout"
ConnectionRefused == "dial tcp: connection refused"

TransportErrs ==
    { TransportErr(ClientTimeoutExceeded, TRUE, TRUE),
      TransportErr(ContextDeadlineExceeded, TRUE, TRUE),
      TransportErr(IOTimeout, TRUE, TRUE),
      TransportErr(ContextCanceled, TRUE, FALSE),
      TransportErr(ConnectionRefused, TRUE, FALSE) }

\* the errors io.ReadAll(resp.Body) returns
ReadErrs == {ClientTimeoutExceeded, "unexpected EOF"}

\* the timeout test, were it to look for context.DeadlineExceeded only
IsTimeoutErrDeadlineOnly(err) == ErrorsIs(err.chain, ContextDeadlineExceeded)

\* the timeout test, were it to take every net.Error for a timeout
IsTimeoutErrAnyNetError(err) ==
    err.netError \/ ErrorsIs(err.chain, ContextDeadlineExceeded)

\* nErr, ok := err.(net.Error); ok && nErr.Timeout() || errors.Is(err, context.DeadlineExceeded)
IsTimeoutErr(err) ==
    (err.netError /\ err.timeout) \/ ErrorsIs(err.chain, ContextDeadlineExceeded)

\* what performRequest returns
Performed(code, body, err) == [code |-> code, body |-> body, err |-> err]

\* the return on a failure of json.Marshal, were it reported as the timeout
performRequestMarshalErrAsTimeout ==
    Performed(-1, NoBody, Wrap("fail to marshal request payload", <<ErrRequestTimeout>>))

\* json.Marshal(payload) failed
performRequestMarshalErr ==
    Performed(-1, NoBody, Wrap("fail to marshal request payload", <<"json">>))

\* http.NewRequestWithContext fails on an endpoint that is no URL
NewRequestFails(endpoint) == Contains(endpoint, CTL)

performRequestNewRequestErr ==
    Performed(-1, NoBody, Wrap("error when instancing new request", <<"net/url">>))

\* the request handed to c.httpClient.Do
NewRequest(c, endpoint, payload) ==
    [method |-> "POST", url |-> endpoint, body |-> payload,
     header |-> [contentType |-> "application/json", accept |-> "application/json",
                 xApiKey |-> c.FraudAPIKey]]

\* the handling of the error of Do, were every error reported as the timeout
performRequestDoErrAlwaysTimeout(err) == Performed(-1, NoBody, <<ErrRequestTimeout>>)

\* c.httpClient.Do returned err
performRequestDoErr(err) ==
    IF IsTimeoutErr(err) THEN Performed(-1, NoBody, <<ErrRequestTimeout>>)
    ELSE Performed(-1, NoBody,
            Wrap("error when performing HTTP request to the Account Protect API", err.chain))

\* the read error, were the timeout of the client during the read the timeout
performRequestReadErrAsTimeout(err) ==
    IF err = ClientTimeoutExceeded THEN Performed(-1, NoBody, <<ErrRequestTimeout>>)
    ELSE Performed(-1, NoBody, Wrap("fail to read response body", <<err>>))

\* io.ReadAll(resp.Body) returned err
performRequestReadErr(err) ==
    Performed(-1, NoBody, Wrap("fail to read response body", <<err>>))

\* the body was read
performRequestOK(resp) == Performed(resp.StatusCode, resp.Body, NilErr)

\* c.httpClient.Do(req), were the request issued a second time
DoTwice(issued, req) == Append(Append(issued, req), req)

\* c.httpClient.Do(req), issued once
Do(issued, req) == Append(issued, req)

----------------------------------------------------------------------------
(* Events: what differs between the Validate and Collect methods of the four *)
(* event types (the format of the endpoint and the message of the error).    *)

LoginEvent ==
    [Action |-> "login", scheme |-> <<>>,
     validatePath |->
        <<"/", "v", "1", "/", "v", "a", "l", "i", "d", "a", "t", "e", "/", "l", "o", "g", "i", "n">>,
     collectPath |->
        <<"/", "v", "1", "/", "c", "o", "l", "l", "e", "c", "t", "/", "l", "o", "g", "i", "n">>,
     validateMsg |-> "fail to validate login request",
     collectMsg |-> "fail to collect login request"]

RegistrationEvent ==
    [Action |-> "registration", scheme |-> SchemeHTTPS,
     validatePath |->
        <<"/", "v", "1", "/", "v", "a", "l", "i", "d", "a", "t", "e", "/", "r", "e", "g", "i", "s", "t", "r", "a", "t", "i", "o", "n">>,
     collectPath |->
        <<"/", "v", "1", "/", "c", "o", "l", "l", "e", "c", "t", "/", "r", "e", "g", "i", "s", "t", "r", "a", "t", "i", "o", "n">>,
     validateMsg |-> "fail to validate registration request",
     collectMsg |-> "fail to collect registration request"]

AccountUpdateEvent ==
    [Action |-> "account-update", scheme |-> <<>>,
     validatePath |->
        <<"/", "v", "1", "/", "v", "a", "l", "i", "d", "a", "t", "e", "/", "a", "c", "c", "o", "u", "n", "t", "/", "u", "p", "d", "a", "t", "e">>,
     collectPath |->
        <<"/", "v", "1", "/", "c", "o", "l", "l", "e", "c", "t", "/", "a", "c", "c", "o", "u", "n", "t", "/", "u", "p", "d", "a", "t", "e">>,
     validateMsg |-> "fail to validate account update request",
     collectMsg |-> "fail to collect account update request"]

PasswordUpdateEvent ==
    [Action |-> "password-update", scheme |-> <<>>,
     validatePath |->
        <<"/", "v", "1", "/", "v", "a", "l", "i", "d", "a", "t", "e", "/", "p", "a", "s", "s", "w", "o", "r", "d", "/", "u", "p", "d", "a", "t", "e">>,
     collectPath |->
        <<"/", "v", "1", "/", "c", "o", "l", "l", "e", "c", "t", "/", "p", "a", "s", "s", "w", "o", "r", "d", "/", "u", "p", "d", "a", "t", "e">>,
     validateMsg |-> "fail to validate password update request",
     collectMsg |-> "fail to collect password update request"]

Events == {LoginEvent, RegistrationEvent, AccountUpdateEvent, PasswordUpdateEvent}

\* fmt.Sprintf("%s/v1/validate/...", c.Endpoint)
ValidateEndpoint(e, c) == e.scheme \o c.Endpoint \o e.validatePath

\* fmt.Sprintf("%s/v1/collect/...", c.Endpoint)
CollectEndpoint(e, c) == e.scheme \o c.Endpoint \o e.collectPath

\* the request payload of an event (the optional fields of the event aside)
RequestPayload(e, module, header) ==
    [Action |-> e.Action, Account |-> "test-account", Header |-> header, Module |-> module]

\* what Client.Validate and Client.Collect return
Returned(resp, payload, err) == [resp |-> resp, payload |-> payload, err |-> err]

NoReturn == Returned(NilResponse, NilErrorResponse, NilErr)

\* Event.Validate, were it to keep the status decoded from the body
ValidateResultKeepsStatus(e, pr) ==
    IF pr.err # NilErr
    THEN Returned(ResponsePayload(Allow,
                      IF ErrorsIs(pr.err, ErrRequestTimeout) THEN Timeout ELSE Failure),
                  NilErrorResponse, Wrap(e.validateMsg, pr.err))
    ELSE IF ~(pr.code >= 200 /\ pr.code < 300)
    THEN Returned(handleErrorResponse(pr.body), NilErrorResponse, NilErr)
    ELSE LET d == decodeResponsePayload(pr.body) IN
         IF d.err # NilErr
         THEN Returned(ResponsePayload(Allow, Failure), NilErrorResponse, d.err)
         ELSE Returned(d.resp, NilErrorResponse, NilErr)

\* Event.Validate, were it to set the status on the timeout branch only
ValidateResultNoFailureStatus(e, pr) ==
    IF pr.err # NilErr
    THEN Returned(ResponsePayload(Allow,
                      IF ErrorsIs(pr.err, ErrRequestTimeout) THEN Timeout ELSE ""),
                  NilErrorResponse, Wrap(e.validateMsg, pr.err))
    ELSE IF ~(pr.code >= 200 /\ pr.code < 300)
    THEN Returned(handleErrorResponse(pr.body), NilErrorResponse, NilErr)
    ELSE LET d == decodeResponsePayload(pr.body) IN
         IF d.err # NilErr
         THEN Returned(ResponsePayload(Allow, Failure), NilErrorResponse, d.err)
         ELSE Returned([d.resp EXCEPT !.Status = OK], NilErrorResponse, NilErr)

\* Event.Validate, from the return of performRequest on
ValidateResult(e, pr) ==
    IF pr.err # NilErr
    THEN Returned(ResponsePayload(Allow,
                      IF ErrorsIs(pr.err, ErrRequestTimeout) THEN Timeout ELSE Failure),
                  NilErrorResponse, Wrap(e.validateMsg, pr.err))
    ELSE IF ~(pr.code >= 200 /\ pr.code < 300)
    THEN Returned(handleErrorResponse(pr.body), NilErrorResponse, NilErr)
    ELSE LET d == decodeResponsePayload(pr.body) IN
         IF d.err # NilErr
         THEN Returned(ResponsePayload(Allow, Failure), NilErrorResponse, d.err)
         ELSE Returned([d.resp EXCEPT !.Status = OK], NilErrorResponse, NilErr)

\* Event.Collect, were the body of a 2xx response decoded as Validate does
CollectResultDecodes(e, pr) ==
    IF pr.err # NilErr
    THEN Returned(NilResponse, NilErrorResponse, Wrap(e.collectMsg, pr.err))
    ELSE IF ~(pr.code >= 200 /\ pr.code < 300)
    THEN LET responsePayload == handleErrorResponse(pr.body) IN
         Returned(NilResponse,
                  [isNil |-> FALSE, Message |-> responsePayload.Message,
                   Errors |-> responsePayload.Errors],
                  NilErr)
    ELSE Returned(NilResponse, NilErrorResponse, decodeResponsePayload(pr.body).err)

\* Event.Collect, from the return of performRequest on
CollectResult(e, pr) ==
    IF pr.err # NilErr
    THEN Returned(NilResponse, NilErrorResponse, Wrap(e.collectMsg, pr.err))
    ELSE IF ~(pr.code >= 200 /\ pr.code < 300)
    THEN LET responsePayload == handleErrorResponse(pr.body) IN
         Returned(NilResponse,
                  [isNil |-> FALSE, Message |-> responsePayload.Message,
                   Errors |-> responsePayload.Errors],
                  NilErr)
    ELSE Returned(NilResponse, NilErrorResponse, NilErr)

----------------------------------------------------------------------------
(* The Client *)

\* &RequestMetadata{}: no slot is set
EmptyMetadata == [isNil |-> FALSE, slots |-> <<>>]

\* a nil *RequestMetadata
NilMetadata == [isNil |-> TRUE, slots |-> <<>>]

\* rm.<slot> != nil
HasSlot(rm, slot) == slot \in DOMAIN rm.slots

\* c.getModule(), the timestamp aside
getModule(c) == [Name |-> c.moduleName, Version |-> c.moduleVersion]

\* rm.<slot>: a pointer, nil when the slot is not set
Slot(rm, slot) == IF HasSlot(rm, slot) THEN [isNil |-> FALSE, v |-> rm.slots[slot]] ELSE NilPtr

\* a nil *Header
NilHeader == [isNil |-> TRUE]

\* the address, were the peer address of the request parsed whatever the metadata
requestAddrParsesPeer(r, rm) ==
    IF getIP(r).err # NilErr THEN getIP(r)
    ELSE IF HasSlot(rm, "Addr") THEN [ip |-> rm.slots["Addr"], err |-> NilErr]
    ELSE getIP(r)

\* the address of buildHeader: *rm.Addr if it is set, getIP(r) and its error if not
requestAddr(r, rm) ==
    IF HasSlot(rm, "Addr") THEN [ip |-> rm.slots["Addr"], err |-> NilErr] ELSE getIP(r)

\* the port, were -1 used as it is given
portOrDefaultKeepsSentinel(port, proto) == port

\* the port of buildHeader: -1 stands for no port, replaced by the default of proto
portOrDefault(port, proto) ==
    IF port = -1
    THEN IF proto = ProtoHTTPS THEN 443 ELSE 80
    ELSE port

\* c.buildHeader: the fingerprint of the request, each field taken from the
\* metadata if its slot is set and read off the request otherwise, or the error
\* of getIP; rm.Protocol on a nil rm is a nil pointer dereference, a panic
buildHeader(c, r, rm) ==
    LET proto == IF HasSlot(rm, "Protocol") THEN rm.slots["Protocol"] ELSE getProtocol(r)
        userIp == requestAddr(r, rm)
        ip == userIp.ip
        port == portOrDefault(useMetadata(getPort(r), Slot(rm, "Port")), proto)
        FromHeader(key, name) ==
            truncateValue(key, useMetadata(HeaderGet(r, name), Slot(rm, key)))
        PtrFromHeader(key, name) ==
            truncatePointerValue(key, useMetadata(HeaderGet(r, name), Slot(rm, key)))
    IN
    IF rm.isNil
    THEN [header |-> NilHeader, err |-> NilErr, panicked |-> TRUE]
    ELSE IF userIp.err # NilErr
    THEN [header |-> NilHeader, err |-> Wrap("fail to parse request's IP", userIp.err),
          panicked |-> FALSE]
    ELSE [header |->
            [isNil |-> FALSE,
             Accept |-> FromHeader("Accept", "accept"),
             AcceptCharset |-> FromHeader("AcceptCharset", "accept-charset"),
             AcceptEncoding |-> FromHeader("AcceptEncoding", "accept-encoding"),
             AcceptLanguage |-> FromHeader("AcceptLanguage", "accept-language"),
             Addr |-> ip,
             ClientID |-> truncateValue("ClientID",
                                        useMetadata(getClientId(r), Slot(rm, "ClientID"))),
             Connection |-> FromHeader("Connection", "connection"),
             ContentType |-> FromHeader("ContentType", "content-type"),
             From |-> FromHeader("From", "from"),
             Host |-> truncateValue("Host", useMetadata(r.Host, Slot(rm, "Host"))),
             Method |-> r.Method,
             Referer |-> FromHeader("Referer", "referer"),
             Request |-> truncateValue("Request",
                                       useMetadata(getURL(r), Slot(rm, "Request"))),
             Origin |-> FromHeader("Origin", "origin"),
             Port |-> port,
             Protocol |-> proto,
             SecCHUA |-> PtrFromHeader("SecCHUA", "sec-ch-ua"),
             SecCHUAMobile |-> PtrFromHeader("SecCHUAMobile", "sec-ch-ua-mobile"),
             SecCHUAPlatform |-> PtrFromHeader("SecCHUAPlatform", "sec-ch-ua-platform"),
             SecCHUAArch |-> PtrFromHeader("SecCHUAArch", "sec-ch-ua-arch"),
             SecCHUAFullVersionList |->
                 PtrFromHeader("SecCHUAFullVersionList", "sec-ch-ua-full-version-list"),
             SecCHUAModel |-> PtrFromHeader("SecCHUAModel", "sec-ch-ua-model"),
             SecCHDeviceMemory |-> PtrFromHeader("SecCHDeviceMemory", "sec-ch-device-memory"),
             ServerHostname |-> truncateValue("ServerHostname",
                                              useMetadata(r.Host, Slot(rm, "ServerHostname"))),
             UserAgent |-> FromHeader("UserAgent", "user-agent"),
             XForwardedForIP |-> FromHeader("XForwardedForIP", "x-forwarded-for"),
             XRealIP |-> FromHeader("XRealIP", "x-real-ip")],
          err |-> NilErr, panicked |-> FALSE]

Operations == {"Validate", "ValidateWithRequestMetadata", "Collect", "CollectWithRequestMetadata"}

IsValidateOp(op) == op \in {"Validate", "ValidateWithRequestMetadata"}

TakesMetadata(op) == op \in {"ValidateWithRequestMetadata", "CollectWithRequestMetadata"}

\* the metadata passed on, were a nil one not replaced
PassedMetadataKeepsNil(op, requestMetadata) ==
    IF ~TakesMetadata(op) THEN EmptyMetadata ELSE requestMetadata

\* the metadata Validate / Collect / ...WithRequestMetadata pass on
PassedMetadata(op, requestMetadata) ==
    IF ~TakesMetadata(op) \/ requestMetadata.isNil THEN EmptyMetadata ELSE requestMetadata

EventResult(e, op, pr) ==
    IF IsValidateOp(op) THEN ValidateResult(e, pr) ELSE CollectResult(e, pr)

EventEndpoint(e, op, c) ==
    IF IsValidateOp(op) THEN ValidateEndpoint(e, c) ELSE CollectEndpoint(e, c)

----------------------------------------------------------------------------
(* Inputs of a call *)

\* the headers of the request of the tests
BaseHeaders ==
    ("user-agent" :> <<"m", "o", "z", "i", "l", "l", "a">>)
    @@ ("referer" :> <<"w", "w", "w", ".", "e", "x", "a", "m", "p", "l", "e", "2", ".", "c", "o", "m">>)
    @@ ("accept" :> <<"a", "p", "p", "l", "i", "c", "a", "t", "i", "o", "n", "/", "j", "s", "o", "n">>)
    @@ ("accept-encoding" :> <<"f", "r", "-", "F", "R">>)
    @@ ("accept-charset" :> <<"u", "t", "f", "8">>)
    @@ ("accept-language" :> <<"f", "r">>)
    @@ ("content-type" :> <<"a", "p", "p", "l", "i", "c", "a", "t", "i", "o", "n", "/", "j", "s", "o", "n">>)
    @@ ("origin" :> <<"w", "w", "w", ".", "e", "x", "a", "m", "p", "l", "e", ".", "c", "o", "m">>)
    @@ ("x-forwarded-for" :> <<"1", "9", "2", ".", "1", "6", "8", ".", "1", "0", ".", "1", "0", ",", " ", "1", "2", "7", ".", "0", ".", "0", ".", "1">>)
    @@ ("x-real-ip" :> <<"1", "2", "7", ".", "0", ".", "0", ".", "1">>)
    @@ ("x-forwarded-proto" :> <<"h", "t", "t", "p">>)
    @@ ("connection" :> <<"n", "e", "w">>)

\* the request of the tests: GET /ping from 127.0.0.1:1234
BaseRequest ==
    [RemoteAddr |-> <<"1", "2", "7", ".", "0", ".", "0", ".", "1", ":", "1", "2", "3", "4">>,
     Host |-> <<"w", "w", "w", ".", "e", "x", "a", "m", "p", "l", "e", ".", "c", "o", "m">>,
     Method |-> <<"G", "E", "T">>,
     TLS |-> FALSE,
     URL |-> [Path |-> <<"/", "p", "i", "n", "g">>, RawQuery |-> <<>>],
     Header |-> BaseHeaders,
     Cookies |-> << [Name |-> "datadome", Value |-> <<"s", "o", "m", "e", "_", "v", "a", "l", "u", "e">>] >>]

\* r.Header.Set(name, value)
WithHeader(r, name, value) == [r EXCEPT !.Header = (name :> value) @@ r.Header]

\* r.Header.Del(name)
WithoutHeader(r, name) ==
    [r EXCEPT !.Header = [n \in DOMAIN r.Header \ {name} |-> r.Header[n]]]

\* peer addresses: one that splits into host and port, one that does not
RemoteAddrs ==
    { <<"1", "2", "7", ".", "0", ".", "0", ".", "1", ":", "1", "2", "3", "4">>,
      <<"1", "2", "7", ".", "0", ".", "0", ".", "1">> }

\* the requests of the calls
Requests == { [BaseRequest EXCEPT !.RemoteAddr = a] : a \in RemoteAddrs }

\* a metadata with the one slot set
OneSlot(slot, value) == [isNil |-> FALSE, slots |-> (slot :> value)]

\* the metadata of the calls
RequestMetadatas ==
    { NilMetadata, EmptyMetadata, OneSlot("Addr", <<"9", ".", "9", ".", "9", ".", "9">>) }

NoEvent ==
    [Action |-> "", scheme |-> <<>>, validatePath |-> <<>>, collectPath |-> <<>>,
     validateMsg |-> "", collectMsg |-> ""]

NoCall ==
    [event |-> NoEvent, op |-> "", r |-> BaseRequest, rm |-> NilMetadata,
     marshalErr |-> FALSE, eventInvoked |-> FALSE]

NoResponse == [StatusCode |-> 0, Body |-> NoBody, stream |-> "none"]

\* no function is being applied
NoArg == [fn |-> ""]

\* the function has not returned yet
NoRes == [returned |-> FALSE]

----------------------------------------------------------------------------
(* Actions *)

Init ==
    /\ client \in Clients
    /\ pc = "idle"
    /\ call = NoCall
    /\ sent = <<>>
    /\ doErr = NoTransportErr
    /\ httpResp = NoResponse
    /\ readErr = ""
    /\ ret = NoReturn
    /\ ncalls = 0
    /\ nposts = 0
    /\ arg = NoArg
    /\ res = NoRes

(* A call of Client.Validate, Collect, ValidateWithRequestMetadata or         *)
(* CollectWithRequestMetadata, up to the point where performRequest waits in  *)
(* c.httpClient.Do: the fingerprint is built, the event's method builds the   *)
(* payload and the endpoint, performRequest marshals the payload and builds   *)
(* the request.  marshalErr: json.Marshal reports an error.                   *)
Call(e, op, r, requestMetadata, marshalErr) ==
    /\ pc = "idle"
    /\ ncalls < MaxCalls
    /\ ncalls' = ncalls + 1
    /\ doErr' = NoTransportErr
    /\ httpResp' = NoResponse
    /\ readErr' = ""
    /\ UNCHANGED <<client, arg, res>>
    /\ LET h == buildHeader(client, r, PassedMetadata(op, requestMetadata))
           endpoint == EventEndpoint(e, op, client)
           payload == RequestPayload(e, getModule(client), h.header)
           issued == Do(<<>>, NewRequest(client, endpoint, payload))
       IN
       /\ call' = [event |-> e, op |-> op, r |-> r, rm |-> requestMetadata,
                   marshalErr |-> marshalErr,
                   eventInvoked |-> h.err = NilErr /\ ~h.panicked]
       /\ IF h.panicked
          THEN /\ ret' = NoReturn
               /\ pc' = "panicked"
               /\ sent' = <<>>
               /\ UNCHANGED nposts
          ELSE IF h.err # NilErr
          THEN /\ ret' = Returned(NilResponse, NilErrorResponse,
                                  Wrap("fail to extract request fingerprint", h.err))
               /\ pc' = "done"
               /\ sent' = <<>>
               /\ UNCHANGED nposts
          ELSE IF marshalErr
          THEN /\ ret' = EventResult(e, op, performRequestMarshalErr)
               /\ pc' = "done"
               /\ sent' = <<>>
               /\ UNCHANGED nposts
          ELSE IF NewRequestFails(endpoint)
          THEN /\ ret' = EventResult(e, op, performRequestNewRequestErr)
               /\ pc' = "done"
               /\ sent' = <<>>
               /\ UNCHANGED nposts
          ELSE /\ ret' = NoReturn
               /\ pc' = "inflight"
               /\ sent' = issued
               /\ nposts' = nposts + Len(issued)

\* c.httpClient.Do returns an error: performRequest and the event's method return
DoFails(err) ==
    /\ pc = "inflight"
    /\ doErr' = err
    /\ ret' = EventResult(call.event, call.op, performRequestDoErr(err))
    /\ pc' = "done"
    /\ UNCHANGED <<client, call, sent, httpResp, readErr, ncalls, nposts, arg, res>>

\* c.httpClient.Do returns a response: performRequest goes on to read its body
DoResponds(code, body) ==
    /\ pc = "inflight"
    /\ httpResp' = [StatusCode |-> code, Body |-> body, stream |-> "open"]
    /\ pc' = "reading"
    /\ UNCHANGED <<client, call, sent, doErr, readErr, ret, ncalls, nposts, arg, res>>

(* io.ReadAll returns the body: the deferred Body.Close() is registered and *)
(* runs as performRequest returns, then the event's method returns.         *)
ReadAllSucceeds ==
    /\ pc = "reading"
    /\ httpResp' = [httpResp EXCEPT !.stream = "closed"]
    /\ ret' = EventResult(call.event, call.op, performRequestOK(httpResp))
    /\ pc' = "done"
    /\ UNCHANGED <<client, call, sent, doErr, readErr, ncalls, nposts, arg, res>>

(* io.ReadAll returns an error: performRequest returns before the deferred *)
(* Body.Close() is registered.                                             *)
ReadAllFails(err) ==
    /\ pc = "reading"
    /\ readErr' = err
    /\ ret' = EventResult(call.event, call.op, performRequestReadErr(err))
    /\ pc' = "done"
    /\ UNCHANGED <<client, call, sent, doErr, httpResp, ncalls, nposts, arg, res>>

\* the caller has taken the returned values; the client is free for its next call
Finish ==
    /\ pc = "done"
    /\ pc' = "idle"
    /\ call' = NoCall
    /\ sent' = <<>>
    /\ doErr' = NoTransportErr
    /\ httpResp' = NoResponse
    /\ readErr' = ""
    /\ ret' = NoReturn
    /\ UNCHANGED <<client, ncalls, nposts, arg, res>>

Next ==
    \/ \E e \in Events, op \in Operations, r \in Requests,
          requestMetadata \in RequestMetadatas, marshalErr \in BOOLEAN :
          /\ TakesMetadata(op) \/ requestMetadata = NilMetadata
          /\ Call(e, op, r, requestMetadata, marshalErr)
    \/ \E err \in TransportErrs : DoFails(err)
    \/ \E code \in StatusCodes, body \in Bodies \ {NoBody} : DoResponds(code, body)
    \/ ReadAllSucceeds
    \/ \E err \in ReadErrs : ReadAllFails(err)
    \/ Finish

Spec == Init /\ [][Next]_vars

----------------------------------------------------------------------------
(* truncateValue on its own *)

\* no client is constructed and no call is made
NoClientCall ==
    /\ client = NilClient
    /\ pc = "idle"
    /\ call = NoCall
    /\ sent = <<>>
    /\ doErr = NoTransportErr
    /\ httpResp = NoResponse
    /\ readErr = ""
    /\ ret = NoReturn
    /\ ncalls = 0
    /\ nposts = 0

\* a value of n characters, no two neighbours alike
Filler(n) == [i \in 1..n |-> Digits[(i % Len(Digits)) + 1]]

\* the lengths tried go this far below and above every limit of the table
Excess == 2

\* the length of the longest value tried
LongLen == 3000

Abs(n) == IF n < 0 THEN -1 * n ELSE n

Min(a, b) == IF a <= b THEN a ELSE b

\* the limits of the table, signs dropped
Limits == { Abs(getTruncationSize(key)) : key \in ApiFields }

\* the lengths of the values tried: around every limit, and the extremes
ValueLengths ==
    {0, 1, LongLen} \cup { n \in 0..LongLen : \E l \in Limits : Abs(n - l) <= Excess }

\* the keys tried: those of the table and one the table does not have
TruncationKeys == ApiFields \cup {"Method"}

TruncateInit ==
    /\ NoClientCall
    /\ arg \in { [fn |-> "truncateValue", key |-> key, value |-> Filler(n)] :
                   key \in TruncationKeys, n \in ValueLengths }
    /\ res = NoRes

\* truncateValue(key, value) returns
TruncateValue ==
    /\ arg.fn = "truncateValue"
    /\ ~res.returned
    /\ res' = [returned |-> TRUE, value |-> truncateValue(arg.key, arg.value)]
    /\ UNCHANGED <<callVars, arg>>

TruncateNext == TruncateValue

TruncateSpec == TruncateInit /\ [][TruncateNext]_vars

----------------------------------------------------------------------------
(* buildHeader on its own *)

\* the header a field of the fingerprint is read from, for the fields read from one
HeaderNames ==
    ("Accept" :> "accept")
    @@ ("AcceptCharset" :> "accept-charset")
    @@ ("AcceptEncoding" :> "accept-encoding")
    @@ ("AcceptLanguage" :> "accept-language")
    @@ ("Connection" :> "connection")
    @@ ("ContentType" :> "content-type")
    @@ ("From" :> "from")
    @@ ("Referer" :> "referer")
    @@ ("Origin" :> "origin")
    @@ ("SecCHUA" :> "sec-ch-ua")
    @@ ("SecCHUAMobile" :> "sec-ch-ua-mobile")
    @@ ("SecCHUAPlatform" :> "sec-ch-ua-platform")
    @@ ("SecCHUAArch" :> "sec-ch-ua-arch")
    @@ ("SecCHUAFullVersionList" :> "sec-ch-ua-full-version-list")
    @@ ("SecCHUAModel" :> "sec-ch-ua-model")
    @@ ("SecCHDeviceMemory" :> "sec-ch-device-memory")
    @@ ("UserAgent" :> "user-agent")
    @@ ("XForwardedForIP" :> "x-forwarded-for")
    @@ ("XRealIP" :> "x-real-ip")

\* the optional fields of the fingerprint, pointers that are nil when there is no value
SecCHFields ==
    { "SecCHUA", "SecCHUAMobile", "SecCHUAPlatform", "SecCHUAArch",
      "SecCHUAFullVersionList", "SecCHUAModel", "SecCHDeviceMemory" }

\* the slots of RequestMetadata that hold a string
StringSlots == ApiFields \cup {"Addr", "Method", "Protocol"}

\* values of the x-forwarded-proto header
XForwardedProtos ==
    { <<"h", "t", "t", "p">>,
      <<"h", "t", "t", "p", "s">>,
      <<"H", "T", "T", "P", "S">>,
      <<"H", "t", "t", "p">>,
      <<"h", "T", "T", "p", "S">>,
      <<"f", "t", "p">>,
      <<>>,
      <<"h", "t", "t", "p", "s", "s">> }

\* values of r.Host
Hosts ==
    { <<"w", "w", "w", ".", "e", "x", "a", "m", "p", "l", "e", ".", "c", "o", "m">>,
      <<"w", "w", "w", ".", "e", "x", "a", "m", "p", "l", "e", ".", "c", "o", "m", ":", "8", "0", "8", "0">>,
      <<>>,
      <<"w", "w", "w", ".", "e", "x", "a", "m", "p", "l", "e", ".", "c", "o", "m", ":", "-", "1">>,
      <<"w", "w", "w", ".", "e", "x", "a", "m", "p", "l", "e", ".", "c", "o", "m", ":", "h", "t", "t", "p">>,
      <<"w", "w", "w", ".", "e", "x", "a", "m", "p", "l", "e", ".", "c", "o", "m", ":">>,
      <<"[", ":", ":", "1", "]", ":", "9", "0", "9", "0">>,
      <<":", ":", "1">>,
      <<"w", "w", "w", ".", "e", "x", "a", "m", "p", "l", "e", ".", "c", "o", "m", ":", "+", "4", "4", "3">>,
      <<"w", "w", "w", ".", "e", "x", "a", "m", "p", "l", "e", ".", "c", "o", "m", ":", "0">> }

\* requests that differ in what the protocol and the port are derived from
ProtocolRequests ==
    { [r EXCEPT !.Host = host, !.TLS = tls] :
        r \in {WithoutHeader(BaseRequest, "x-forwarded-proto")}
              \cup { WithHeader(BaseRequest, "x-forwarded-proto", p) : p \in XForwardedProtos },
        host \in Hosts, tls \in BOOLEAN }

SessionHeader == <<"1", "2", "3", "4", "5", "6">>

\* lists of cookies: none, the datadome one, it among others, one named in another case
CookieLists ==
    { <<>>,
      << [Name |-> "datadome", Value |-> <<"s", "o", "m", "e", "_", "v", "a", "l", "u", "e">>] >>,
      << [Name |-> "lang", Value |-> <<"f", "r">>],
         [Name |-> "datadome", Value |-> <<"f", "i", "r", "s", "t">>],
         [Name |-> "datadome", Value |-> <<"s", "e", "c", "o", "n", "d">>] >>,
      << [Name |-> "DataDome", Value |-> <<"o", "t", "h", "e", "r", "_", "c", "a", "s", "e">>] >> }

\* requests that differ in what the client id is derived from
ClientIdRequests ==
    { [r EXCEPT !.Cookies = cookies] :
        r \in { BaseRequest,
                WithHeader(BaseRequest, "x-datadome-clientid", <<>>),
                WithHeader(BaseRequest, "x-datadome-clientid", SessionHeader) },
        cookies \in CookieLists }

\* a request whose every value has n characters
LongRequest(n) ==
    [BaseRequest EXCEPT
        !.Host = Filler(n),
        !.URL = [Path |-> <<"/">> \o Filler(n - 1), RawQuery |-> <<>>],
        !.Header = [name \in {HeaderNames[k] : k \in DOMAIN HeaderNames}
                            \cup {"x-datadome-clientid"} |-> Filler(n)],
        !.Cookies = << [Name |-> "datadome", Value |-> Filler(n)] >>]

\* the requests buildHeader is tried on
HeaderRequests ==
    ProtocolRequests \cup ClientIdRequests
    \cup { LongRequest(l + 1) : l \in Limits } \cup { LongRequest(LongLen) }
    \cup { [BaseRequest EXCEPT !.RemoteAddr = a] : a \in RemoteAddrs }

\* the value the slots are set to
Override == <<"o", "v", "e", "r", "r", "i", "d", "e">>

\* a protocol that is neither http nor https
ProtoGRPC == <<"g", "r", "p", "c">>

\* every slot is set
AllSlots ==
    [isNil |-> FALSE, slots |-> ("Port" :> 8443) @@ [s \in StringSlots |-> Override]]

\* the metadata buildHeader is tried on: no slot, one slot, every slot
HeaderMetadatas ==
    {EmptyMetadata, AllSlots}
    \cup { OneSlot(s, v) : s \in StringSlots, v \in {Override, <<>>} }
    \cup { OneSlot(k, Filler(Abs(getTruncationSize(k)) + 1)) : k \in ApiFields }
    \cup { OneSlot("Port", p) : p \in {8443, 0, -1} }
    \cup { OneSlot("Protocol", ProtoHTTPS) }
    \cup { OneSlot("Protocol", ProtoGRPC) }
    \cup { [isNil |-> FALSE, slots |-> ("Port" :> -1) @@ ("Protocol" :> p)] :
               p \in {ProtoHTTPS, ProtoGRPC} }
    \cup { OneSlot("Addr", Filler(LongLen)) }

HeaderInit ==
    /\ NoClientCall
    /\ arg \in { [fn |-> "buildHeader", r |-> r, rm |-> rm] :
                   r \in HeaderRequests, rm \in HeaderMetadatas }
    /\ res = NoRes

\* c.buildHeader(r, rm) returns
BuildHeader ==
    /\ arg.fn = "buildHeader"
    /\ ~res.returned
    /\ LET h == buildHeader(client, arg.r, arg.rm) IN
       res' = [returned |-> TRUE, header |-> h.header, err |-> h.err]
    /\ UNCHANGED <<callVars, arg>>

HeaderNext == BuildHeader

HeaderSpec == HeaderInit /\ [][HeaderNext]_vars

----------------------------------------------------------------------------
(* NewClient on its own *)

\* NewClient is tried with this many options at most
MaxOptions == 2

\* endpoints given to ClientWithEndpoint
Endpoints ==
    { <<>>, <<"a", ".", "c", "o">>,
      SchemeHTTP \o <<"a", ".", "c", "o">>,
      SchemeHTTPS \o <<"a", ".", "c", "o">>,
      <<"f", "t", "p", ":", "/", "/", "a", ".", "c", "o">> }

\* timeouts given to ClientWithTimeout
Timeouts == {-1, 0, 1, DefaultTimeoutValue}

ClientOptions ==
    { ClientWithEndpoint(e) : e \in Endpoints } \cup { ClientWithTimeout(t) : t \in Timeouts }

\* the lists of at most n options
RECURSIVE OptionLists(_)
OptionLists(n) ==
    IF n = 0 THEN { <<>> }
    ELSE OptionLists(n - 1)
         \cup { Append(l, o) : l \in { m \in OptionLists(n - 1) : Len(m) = n - 1 },
                               o \in ClientOptions }

NewClientInit ==
    /\ NoClientCall
    /\ arg \in { [fn |-> "NewClient", fraudApiKey |-> k, options |-> o] :
                   k \in ApiKeys, o \in OptionLists(MaxOptions) }
    /\ res = NoRes

\* NewClient(fraudApiKey, options...) returns
Construct ==
    /\ arg.fn = "NewClient"
    /\ ~res.returned
    /\ LET n == NewClient(arg.fraudApiKey, arg.options) IN
       /\ client' = n.c
       /\ res' = [returned |-> TRUE, c |-> n.c, err |-> n.err]
    /\ UNCHANGED <<pc, call, sent, doErr, httpResp, readErr, ret, ncalls, nposts, arg>>

NewClientNext == Construct

NewClientSpec == NewClientInit /\ [][NewClientNext]_vars

----------------------------------------------------------------------------
(* The constructors of the events and the payloads of their requests *)

\* a nil *User, *Session, *Authentication
NilUser == [isNil |-> TRUE, ID |-> ""]

NilSession == [isNil |-> TRUE, ID |-> ""]

NilAuthentication == [isNil |-> TRUE, Mode |-> "", SocialProvider |-> "", Type |-> ""]

\* User{ID: id}, Session{ID: &id}, Authentication{Mode: &mode, ...}
User(id) == [isNil |-> FALSE, ID |-> id]

Session(id) == [isNil |-> FALSE, ID |-> id]

Authentication(mode, socialProvider, type) ==
    [isNil |-> FALSE, Mode |-> mode, SocialProvider |-> socialProvider, Type |-> type]

\* the functional options: each assigns the one field of the event
LoginWithUser(user) == [field |-> "User", v |-> user]

LoginWithSession(session) == [field |-> "Session", v |-> session]

LoginWithAuthentication(authentication) == [field |-> "Authentication", v |-> authentication]

AccountUpdateWithSession(session) == [field |-> "Session", v |-> session]

AccountUpdateWithUser(user) == [field |-> "User", v |-> user]

RegistrationWithSession(session) == [field |-> "Session", v |-> session]

PasswordUpdateWithSession(session) == [field |-> "Session", v |-> session]

\* AccountUpdateWithAuthentication, were only the mode of the authentication kept
AccountUpdateWithAuthenticationModeOnly(authentication) ==
    [field |-> "Authentication", v |-> Authentication(authentication.Mode, "", "")]

\* the options of v1.2.0, which src/ has the tests and the changelog of
AccountUpdateWithAuthentication(authentication) ==
    [field |-> "Authentication", v |-> authentication]

RegistrationWithAuthentication(authentication) ==
    [field |-> "Authentication", v |-> authentication]

\* the Authentication field v1.2.0 gives the account update and registration
\* events, nil until the option sets it
AuthenticationField == [Authentication |-> NilAuthentication]

\* opt(event), were a field that is set already left as it is
ApplyEventOptionOnce(e, o) ==
    IF e[o.field].isNil THEN [e EXCEPT ![o.field] = o.v] ELSE e

\* opt(event)
ApplyEventOption(e, o) == [e EXCEPT ![o.field] = o.v]

\* for _, opt := range options { opt(event) }
RECURSIVE ApplyEventOptions(_, _)
ApplyEventOptions(e, options) ==
    IF options = <<>> THEN e
    ELSE ApplyEventOptions(ApplyEventOption(e, Head(options)), Tail(options))

NewLoginEvent(account, status, options) ==
    ApplyEventOptions(
        [Account |-> account, Action |-> "login", Status |-> status,
         User |-> NilUser, Session |-> NilSession, Authentication |-> NilAuthentication],
        options)

NewRegistrationEvent(account, user, options) ==
    ApplyEventOptions(
        [Account |-> account, Action |-> "registration", Session |-> NilSession,
         User |-> user] @@ AuthenticationField,
        options)

NewAccountUpdateEvent(account, options) ==
    ApplyEventOptions(
        [Account |-> account, Action |-> "account-update", Session |-> NilSession,
         User |-> NilUser] @@ AuthenticationField,
        options)

NewPasswordUpdateEvent(account, user, reason, status, options) ==
    ApplyEventOptions(
        [Account |-> account, Action |-> "password-update", Reason |-> reason,
         Session |-> NilSession, Status |-> status, User |-> user],
        options)

\* the Authentication of the event in the payload, as v1.2.0 forwards it
ForwardedAuthentication(e) == [Authentication |-> e.Authentication]

\* the payload the Validate and the Collect of an event build
EventRequestPayload(e, module, header) ==
    LET common == [Account |-> e.Account, Header |-> header, Module |-> module] IN
    CASE e.Action = "login" ->
            common @@ [Status |-> e.Status, User |-> e.User, Session |-> e.Session,
                       Authentication |-> e.Authentication]
      [] e.Action = "registration" ->
            common @@ [Session |-> e.Session, User |-> e.User] @@ ForwardedAuthentication(e)
      [] e.Action = "account-update" ->
            common @@ [Session |-> e.Session, User |-> e.User] @@ ForwardedAuthentication(e)
      [] e.Action = "password-update" ->
            common @@ [Reason |-> e.Reason, Session |-> e.Session, Status |-> e.Status,
                       User |-> e.User]

\* the events are built with this many options at most
MaxEventOptions == 2

Users == {User("user-1"), User("user-2")}

Sessions == {Session("session-1"), Session("session-2")}

Authentications ==
    {Authentication("password", "google", "social"), Authentication("biometric", "", "local")}

\* the options a constructor takes
EventOptions(kind) ==
    CASE kind = "login" ->
            { LoginWithUser(u) : u \in Users } \cup { LoginWithSession(s) : s \in Sessions }
            \cup { LoginWithAuthentication(a) : a \in Authentications }
      [] kind = "registration" ->
            { RegistrationWithSession(s) : s \in Sessions }
            \cup { RegistrationWithAuthentication(a) : a \in Authentications }
      [] kind = "account-update" ->
            { AccountUpdateWithSession(s) : s \in Sessions }
            \cup { AccountUpdateWithUser(u) : u \in Users }
            \cup { AccountUpdateWithAuthentication(a) : a \in Authentications }
      [] kind = "password-update" ->
            { PasswordUpdateWithSession(s) : s \in Sessions }

\* the lists of at most n options of a constructor
RECURSIVE EventOptionLists(_, _)
EventOptionLists(kind, n) ==
    IF n = 0 THEN { <<>> }
    ELSE EventOptionLists(kind, n - 1)
         \cup { Append(l, o) : l \in { m \in EventOptionLists(kind, n - 1) : Len(m) = n - 1 },
                               o \in EventOptions(kind) }

\* the arguments the constructors are tried on
EventArgs ==
    { [fn |-> "NewEvent", kind |-> "login", account |-> "test-account", status |-> status,
       reason |-> "", user |-> NilUser, options |-> options] :
         status \in {"succeeded", "failed"},
         options \in EventOptionLists("login", MaxEventOptions) }
    \cup
    { [fn |-> "NewEvent", kind |-> "registration", account |-> "test-account", status |-> "",
       reason |-> "", user |-> user, options |-> options] :
         user \in Users, options \in EventOptionLists("registration", MaxEventOptions) }
    \cup
    { [fn |-> "NewEvent", kind |-> "account-update", account |-> "test-account",
       status |-> "", reason |-> "", user |-> NilUser, options |-> options] :
         options \in EventOptionLists("account-update", MaxEventOptions) }
    \cup
    { [fn |-> "NewEvent", kind |-> "password-update", account |-> "test-account",
       status |-> status, reason |-> reason, user |-> user, options |-> options] :
         status \in {"succeeded", "failed"}, reason \in {"forgotPassword", "userUpdate"},
         user \in Users, options \in EventOptionLists("password-update", MaxEventOptions) }

\* the constructor of the kind, on the arguments
NewEventOf(a) ==
    CASE a.kind = "login" -> NewLoginEvent(a.account, a.status, a.options)
      [] a.kind = "registration" -> NewRegistrationEvent(a.account, a.user, a.options)
      [] a.kind = "account-update" -> NewAccountUpdateEvent(a.account, a.options)
      [] a.kind = "password-update" ->
            NewPasswordUpdateEvent(a.account, a.user, a.reason, a.status, a.options)

\* no payload is built yet
NoEventPayload == [Account |-> ""]

EventInit ==
    /\ client = NewClient("your-fraud-api-key", <<>>).c
    /\ pc = "idle"
    /\ call = NoCall
    /\ sent = <<>>
    /\ doErr = NoTransportErr
    /\ httpResp = NoResponse
    /\ readErr = ""
    /\ ret = NoReturn
    /\ ncalls = 0
    /\ nposts = 0
    /\ arg \in EventArgs
    /\ res = NoRes

\* New<Action>Event(..., options...) returns
NewEvent ==
    /\ arg.fn = "NewEvent"
    /\ ~res.returned
    /\ res' = [returned |-> TRUE, event |-> NewEventOf(arg), op |-> "",
               payload |-> NoEventPayload]
    /\ UNCHANGED <<callVars, arg>>

\* the Validate or the Collect of the event builds the payload of its request
BuildPayload(op) ==
    /\ arg.fn = "NewEvent"
    /\ res.returned
    /\ res.op = ""
    /\ res' = [res EXCEPT
                 !.op = op,
                 !.payload = EventRequestPayload(
                                 res.event, getModule(client),
                                 buildHeader(client, BaseRequest, EmptyMetadata).header)]
    /\ UNCHANGED <<callVars, arg>>

EventNext ==
    \/ NewEvent
    \/ \E op \in {"Validate", "Collect"} : BuildPayload(op)

EventSpec == EventInit /\ [][EventNext]_vars

-----------------------------------------------------------------------------
(* Concurrent calls on one client: every goroutine runs validate or collect *)
(* on the same *Client; the steps of the calls interleave.                  *)

NumGoroutines == 2

Goroutines == 1 .. NumGoroutines

\* the locals of a goroutine that has not called yet
NoLocals ==
    [pc |-> "idle", call |-> NoCall, module |-> "", h |-> NilHeader, sent |-> <<>>,
     doErr |-> NoTransportErr, httpResp |-> NoResponse, readErr |-> "", ret |-> NoReturn]

(* validate and collect up to the call of the event's method: they read the *)
(* client and write nothing to it.                                          *)
Started(c, e, op, r, requestMetadata) ==
    LET h == buildHeader(c, r, PassedMetadata(op, requestMetadata))
    IN [NoLocals EXCEPT
          !.call = [event |-> e, op |-> op, r |-> r, rm |-> requestMetadata,
                    marshalErr |-> FALSE,
                    eventInvoked |-> h.err = NilErr /\ ~h.panicked],
          !.h = h.header,
          !.module = getModule(c),
          !.pc = IF h.panicked THEN "panicked"
                 ELSE IF h.err # NilErr THEN "done" ELSE "built",
          !.ret = IF ~h.panicked /\ h.err # NilErr
                  THEN Returned(NilResponse, NilErrorResponse,
                                Wrap("fail to extract request fingerprint", h.err))
                  ELSE NoReturn]

\* the event's method and performRequest up to c.httpClient.Do
Invoked(c, l) ==
    LET endpoint == EventEndpoint(l.call.event, l.call.op, c)
        payload == RequestPayload(l.call.event, l.module, l.h)
    IN IF NewRequestFails(endpoint)
       THEN [l EXCEPT !.pc = "done",
                      !.ret = EventResult(l.call.event, l.call.op,
                                          performRequestNewRequestErr)]
       ELSE [l EXCEPT !.pc = "inflight",
                      !.sent = Do(<<>>, NewRequest(c, endpoint, payload))]

\* c.httpClient.Do has returned an error
DoFailed(l, err) ==
    [l EXCEPT !.pc = "done", !.doErr = err,
              !.ret = EventResult(l.call.event, l.call.op, performRequestDoErr(err))]

\* c.httpClient.Do has returned a response
DoResponded(l, code, body) ==
    [l EXCEPT !.pc = "reading",
              !.httpResp = [StatusCode |-> code, Body |-> body, stream |-> "open"]]

\* io.ReadAll has returned the body
ReadAllSucceeded(l) ==
    [l EXCEPT !.pc = "done",
              !.httpResp = [l.httpResp EXCEPT !.stream = "closed"],
              !.ret = EventResult(l.call.event, l.call.op, performRequestOK(l.httpResp))]

\* io.ReadAll has returned an error
ReadAllFailed(l, err) ==
    [l EXCEPT !.pc = "done", !.readErr = err,
              !.ret = EventResult(l.call.event, l.call.op, performRequestReadErr(err))]

ConcurrentClients ==
    { NewClient("your-fraud-api-key", <<>>).c,
      NewClient("other-key",
                <<ClientWithEndpoint(<<"h","t","t","p",":","/","/","a",".","c","o">>),
                  ClientWithTimeout(1)>>).c }

ConcurrentEvents == {LoginEvent, RegistrationEvent}

\* the operation of a call and the metadata passed to it
ConcurrentCalls ==
    { [op |-> "Validate", rm |-> NilMetadata],
      [op |-> "CollectWithRequestMetadata",
       rm |-> OneSlot("Addr", <<"9",".","9",".","9",".","9">>)] }

ConcurrentTransportErrs == { TransportErr(ClientTimeoutExceeded, TRUE, TRUE) }

ConcurrentResponses ==
    { [code |-> 200, body |-> Body("{action:deny}", TRUE, {}, Deny, "", NilString, <<>>)],
      [code |-> 400,
       body |-> Body("{message:blocked,errors:[{field:account,error:invalid}]}",
                     TRUE, {}, "", "", "blocked", FieldErrors)] }

ConcurrentInit ==
    /\ client \in ConcurrentClients
    /\ pc = "idle"
    /\ call = NoCall
    /\ sent = <<>>
    /\ doErr = NoTransportErr
    /\ httpResp = NoResponse
    /\ readErr = ""
    /\ ret = NoReturn
    /\ ncalls = 0
    /\ nposts = 0
    /\ arg = [fn |-> "go", client |-> client]
    /\ res = [g \in Goroutines |-> NoLocals]

GoCall(g, e, op, r, requestMetadata) ==
    /\ res[g].pc = "idle"
    /\ res' = [res EXCEPT ![g] = Started(client, e, op, r, requestMetadata)]
    /\ UNCHANGED <<callVars, arg>>

\* a call that stored the URL it formatted in the endpoint of the client
GoInvokeStoresEndpoint(g) ==
    /\ res[g].pc = "built"
    /\ res' = [res EXCEPT ![g] = Invoked(client, res[g])]
    /\ client' = [client EXCEPT
                    !.Endpoint = EventEndpoint(res[g].call.event, res[g].call.op, client)]
    /\ UNCHANGED <<pc, call, sent, doErr, httpResp, readErr, ret, ncalls, nposts, arg>>

GoInvoke(g) ==
    /\ res[g].pc = "built"
    /\ res' = [res EXCEPT ![g] = Invoked(client, res[g])]
    /\ UNCHANGED <<callVars, arg>>

GoDoFails(g, err) ==
    /\ res[g].pc = "inflight"
    /\ res' = [res EXCEPT ![g] = DoFailed(res[g], err)]
    /\ UNCHANGED <<callVars, arg>>

GoDoResponds(g, code, body) ==
    /\ res[g].pc = "inflight"
    /\ res' = [res EXCEPT ![g] = DoResponded(res[g], code, body)]
    /\ UNCHANGED <<callVars, arg>>

GoReadAllSucceeds(g) ==
    /\ res[g].pc = "reading"
    /\ res' = [res EXCEPT ![g] = ReadAllSucceeded(res[g])]
    /\ UNCHANGED <<callVars, arg>>

GoReadAllFails(g, err) ==
    /\ res[g].pc = "reading"
    /\ res' = [res EXCEPT ![g] = ReadAllFailed(res[g], err)]
    /\ UNCHANGED <<callVars, arg>>

ConcurrentNext ==
    \E g \in Goroutines :
        \/ \E e \in ConcurrentEvents, k \in ConcurrentCalls :
              GoCall(g, e, k.op, BaseRequest, k.rm)
        \/ GoInvoke(g)
        \/ \E err \in ConcurrentTransportErrs : GoDoFails(g, err)
        \/ \E p \in ConcurrentResponses : GoDoResponds(g, p.code, p.body)
        \/ GoReadAllSucceeds(g)
        \/ GoReadAllFails(g, ClientTimeoutExceeded)

ConcurrentSpec == ConcurrentInit /\ [][ConcurrentNext]_vars

----------------------------------------------------------------------------
(* Properties *)

\* the current call has returned
Done == pc = "done"

\* the current call is a Validate (with or without metadata) and has returned
ValidateDone == Done /\ IsValidateOp(call.op)

\* Do returned a response and io.ReadAll returned its body
BodyRead == httpResp.stream # "none" /\ readErr = ""

Is2xx(code) == code >= 200 /\ code < 300

\* the causes of a Do error that are a timeout: the Client.Timeout, the deadline
\* of the request context, a timeout of the network
TimeoutCauses == {ClientTimeoutExceeded, ContextDeadlineExceeded, IOTimeout}

\* the body decodes into a ResponsePayload
DecodableResponse(body) == body.valid /\ body.mistyped = {}

\* the body decodes into an ErrorResponsePayload
DecodableErrorResponse(body) ==
    body.valid /\ "message" \notin body.mistyped /\ "errors" \notin body.mistyped

(* C1: the Response returned by Validate has an action other than allow only *)
(* if Do returned no error, the body was read, the status code is in         *)
(* [200,300) and the body decoded; in every other outcome the action is      *)
(* allow.                                                                    *)
C1_FailOpen ==
    (ValidateDone /\ ~ret.resp.isNil) =>
        \/ ret.resp.Action = Allow
        \/ /\ doErr = NoTransportErr
           /\ BodyRead
           /\ Is2xx(httpResp.StatusCode)
           /\ DecodableResponse(httpResp.Body)

C1_Witness ==
    /\ ValidateDone
    /\ httpResp.StatusCode = 200
    /\ ret.resp.Action = Deny

C3_TransportFailureResponse ==
    (ValidateDone /\ doErr # NoTransportErr /\ doErr.cause \notin TimeoutCauses) =>
        /\ ~ret.resp.isNil
        /\ ret.resp.Status = Failure
        /\ ret.resp.Status # Timeout
        /\ ret.resp.Action = Allow
        /\ ret.err # NilErr

C3_Witness ==
    /\ ValidateDone
    /\ doErr.cause = ConnectionRefused
    /\ ret.resp.Status = Failure

(* C4: on a status code in [200,300) with a decodable body, the Response has *)
(* status ok whatever the body carries, the action of the body, and the      *)
(* error is nil.                                                             *)
C4_SuccessResponse ==
    (ValidateDone /\ BodyRead /\ Is2xx(httpResp.StatusCode)
        /\ DecodableResponse(httpResp.Body)) =>
        /\ ~ret.resp.isNil
        /\ ret.resp.Status = OK
        /\ ret.resp.Action = httpResp.Body.action
        /\ ret.err = NilErr

C4_Witness ==
    /\ ValidateDone
    /\ BodyRead
    /\ httpResp.StatusCode = 299
    /\ httpResp.Body.status = Timeout
    /\ ret.resp.Action = Challenge
    /\ ret.resp.Status = OK

(* C5: on a status code outside [200,300) the Response has status failure    *)
(* and action allow and the error is nil; message and field errors are those *)
(* of the body when it decodes and empty when it does not; an action in the  *)
(* body is ignored.                                                          *)
C5_ErrorResponse ==
    (ValidateDone /\ BodyRead /\ ~Is2xx(httpResp.StatusCode)) =>
        /\ ~ret.resp.isNil
        /\ ret.resp.Status = Failure
        /\ ret.resp.Action = Allow
        /\ ret.err = NilErr
        /\ DecodableErrorResponse(httpResp.Body) =>
              /\ ret.resp.Message = httpResp.Body.message
              /\ ret.resp.Errors = httpResp.Body.errors
        /\ ~DecodableErrorResponse(httpResp.Body) =>
              /\ ret.resp.Message = NilString
              /\ ret.resp.Errors = <<>>

C5_Witness ==
    /\ ValidateDone
    /\ BodyRead
    /\ httpResp.StatusCode = 403
    /\ httpResp.Body.action = Deny
    /\ ret.resp.Message = "blocked"
    /\ ret.resp.Errors = FieldErrors

(* C6: on a status code in [200,300) with a body that does not decode,       *)
(* Validate returns action allow, status failure and the decode error.       *)
C6_UndecodableSuccess ==
    (ValidateDone /\ BodyRead /\ Is2xx(httpResp.StatusCode)
        /\ ~DecodableResponse(httpResp.Body)) =>
        /\ ~ret.resp.isNil
        /\ ret.resp.Action = Allow
        /\ ret.resp.Status = Failure
        /\ ret.err # NilErr
        /\ ErrorsIs(ret.err, "fail to parse API's response")

C6_Witness ==
    /\ ValidateDone
    /\ BodyRead
    /\ httpResp.StatusCode = 204
    /\ ~httpResp.Body.valid
    /\ ret.err # NilErr

(* C7: every non-nil Response returned by Validate has a status among ok,    *)
(* failure and timeout.                                                      *)
C7_TerminalStatus ==
    (ValidateDone /\ ~ret.resp.isNil) => ret.resp.Status \in {OK, Failure, Timeout}

C7_Witness ==
    /\ ValidateDone
    /\ BodyRead
    /\ Is2xx(httpResp.StatusCode)
    /\ httpResp.Body.raw = "{}"
    /\ ret.resp.Status = OK

(* C8, as stated: a cancelled request context, like an elapsed per-call      *)
(* timeout, is reported as the timeout: the dispatcher returns               *)
(* ErrRequestTimeout and Validate returns status timeout with action allow.  *)
C8_CancelReportedAsTimeout ==
    (ValidateDone /\ doErr.cause \in {ContextCanceled, ClientTimeoutExceeded}) =>
        /\ Tail(ret.err) = <<ErrRequestTimeout>>
        /\ ret.resp.Status = Timeout
        /\ ret.resp.Action = Allow

(* C8, amended: an elapsed per-call timeout (or deadline of the request      *)
(* context) is reported as the timeout; a cancelled request context aborts   *)
(* the call as a transport failure: the error of the dispatcher is not       *)
(* ErrRequestTimeout and Validate returns status failure with action allow.  *)
C8_CancelReportedAsFailure ==
    /\ (ValidateDone /\ doErr.cause \in {ClientTimeoutExceeded, ContextDeadlineExceeded}) =>
          /\ Tail(ret.err) = <<ErrRequestTimeout>>
          /\ ret.resp.Status = Timeout
          /\ ret.resp.Action = Allow
    /\ (ValidateDone /\ doErr.cause = ContextCanceled) =>
          /\ ret.err # NilErr
          /\ ~ErrorsIs(ret.err, ErrRequestTimeout)
          /\ ErrorsIs(ret.err, ContextCanceled)
          /\ ret.resp.Status = Failure
          /\ ret.resp.Action = Allow

C8_Witness ==
    /\ ValidateDone
    /\ doErr.cause = ContextCanceled
    /\ ret.resp.Status = Failure
    /\ sent # <<>>

(* C9: whenever Do returned a response, its body is closed when the          *)
(* dispatcher has returned, whether reading the body succeeded or failed.    *)
C9_BodyClosedOnReturn ==
    (Done /\ httpResp.stream # "none") => httpResp.stream = "closed"

(* C10: a call hands at most one request to the transport, a POST, whatever  *)
(* its outcome; over all calls there are no more requests than calls.        *)
C10_AtMostOnce ==
    /\ Len(sent) <= 1
    /\ nposts <= ncalls
    /\ \A i \in 1..Len(sent) : sent[i].method = "POST"

C10_Witness ==
    /\ Done
    /\ ncalls = MaxCalls
    /\ nposts = MaxCalls
    /\ Len(sent) = 1
    /\ doErr.cause = ClientTimeoutExceeded

\* the current call passes buildHeader no address and the peer address of its
\* request does not split into host and port
MalformedPeerAddress ==
    /\ call.op # ""
    /\ ~HasSlot(PassedMetadata(call.op, call.rm), "Addr")
    /\ SplitHostPort(call.r.RemoteAddr).err # NilErr

(* C11: when the peer address of the inbound request does not split into     *)
(* host and port and the call gives no address override, the call has         *)
(* returned a nil Response, a nil error payload and a non-nil error, the      *)
(* event's Validate/Collect was not invoked and no outbound request was sent. *)
C11_MalformedPeerAddressIsFatal ==
    MalformedPeerAddress =>
        /\ Done
        /\ ret.resp.isNil
        /\ ret.payload.isNil
        /\ ret.err # NilErr
        /\ ~call.eventInvoked
        /\ sent = <<>>

C11_Witness ==
    /\ MalformedPeerAddress
    /\ Done
    /\ call.op = "ValidateWithRequestMetadata"
    /\ call.rm = EmptyMetadata
    /\ ErrorsIs(ret.err, "missing port in address")

\* the current call is a Validate whose event was invoked and whose payload
\* json.Marshal refused
MarshalFailed == ValidateDone /\ call.eventInvoked /\ call.marshalErr

Truncated == arg.fn = "truncateValue" /\ res.returned

(* C15: under a key whose limit L is positive, truncateValue returns the     *)
(* first min(len(v), L) characters of v, and v itself when it is no longer    *)
(* than L.                                                                    *)
C15_PositiveLimitKeepsPrefix ==
    Truncated /\ getTruncationSize(arg.key) > 0 =>
        LET L == getTruncationSize(arg.key)
            v == arg.value
        IN /\ Len(res.value) = Min(Len(v), L)
           /\ res.value = SubSeq(v, 1, Len(res.value))
           /\ Len(v) <= L => res.value = v

C15_Witness ==
    /\ Truncated
    /\ arg.key = "UserAgent"
    /\ getTruncationSize(arg.key) = 768
    /\ Len(arg.value) = 769
    /\ res.value = SubSeq(arg.value, 1, 768)

(* C16: under the forwarded-for key, whose limit is -512, truncateValue      *)
(* returns the last min(len(v), 512) characters of v.                         *)
C16_NegativeLimitKeepsSuffix ==
    /\ getTruncationSize("XForwardedForIP") = -512
    /\ Truncated /\ arg.key = "XForwardedForIP" =>
          LET v == arg.value IN
          /\ Len(res.value) = Min(Len(v), 512)
          /\ res.value = SubSeq(v, Len(v) - Len(res.value) + 1, Len(v))

C16_Witness ==
    /\ Truncated
    /\ arg.key = "XForwardedForIP"
    /\ Len(arg.value) = 513
    /\ res.value = Tail(arg.value)
    /\ res.value # SubSeq(arg.value, 1, 512)

\* buildHeader has returned a fingerprint
HeaderBuilt == arg.fn = "buildHeader" /\ res.returned /\ res.err = NilErr

\* the value of a field as the request gives it, before truncation
DerivedValue(r, proto, field) ==
    CASE field = "Addr" -> getIP(r).ip
      [] field = "ClientID" -> getClientId(r)
      [] field \in {"Host", "ServerHostname"} -> r.Host
      [] field = "Method" -> r.Method
      [] field = "Request" -> getURL(r)
      [] field = "Protocol" -> getProtocol(r)
      [] field = "Port" ->
            IF getPort(r) # -1 THEN getPort(r)
            ELSE IF proto = ProtoHTTPS THEN 443 ELSE 80
      [] OTHER -> HeaderGet(r, HeaderNames[field])

\* a value as a field holds it: cut to the limit of the field if it has one,
\* behind a pointer if the field is optional
AsField(field, value) ==
    IF field \in SecCHFields THEN truncatePointerValue(field, value)
    ELSE IF field \in ApiFields THEN truncateValue(field, value)
    ELSE value

(* C13 as stated: every field of the fingerprint that has a slot in          *)
(* RequestMetadata (Method, Port, Protocol, Addr and the Sec-CH-* ones        *)
(* included) holds the value of the slot, truncated, when the slot is set,    *)
(* and the value derived from the request when it is not.                     *)
C13_EverySlotOverrides ==
    HeaderBuilt =>
        \A field \in StringSlots \cup {"Port"} :
            res.header[field] =
                AsField(field,
                        IF HasSlot(arg.rm, field) THEN arg.rm.slots[field]
                        ELSE DerivedValue(arg.r, res.header.Protocol, field))

(* C14: every field of the fingerprint that has a limit in the truncation    *)
(* table is at most as long as the limit, sign dropped; an optional field is  *)
(* when it is not nil.                                                        *)
C14_FieldsWithinLimits ==
    HeaderBuilt =>
        \A key \in ApiFields :
            LET field == res.header[key] IN
            IF key \in SecCHFields
            THEN ~field.isNil => Len(field.v) <= Abs(getTruncationSize(key))
            ELSE Len(field) <= Abs(getTruncationSize(key))

C14_Witness ==
    /\ HeaderBuilt
    /\ arg.rm = OneSlot("SecCHUAArch", Filler(17))
    /\ Len(HeaderGet(arg.r, "user-agent")) = LongLen
    /\ Len(res.header.UserAgent) = 768
    /\ Len(res.header.XForwardedForIP) = 512
    /\ res.header.SecCHUAArch = StringPtr(Filler(16))
    /\ Len(res.header.SecCHUA.v) = 128

\* the x-forwarded-proto header of the request buildHeader was given
XForwardedProto == HeaderGet(arg.r, "x-forwarded-proto")

(* C17 as stated: with no protocol override the protocol of the fingerprint  *)
(* is "https" when x-forwarded-proto is https in any letter case, "http"      *)
(* when it is http in any letter case, and otherwise "https" on a TLS         *)
(* connection and "http" on a plaintext one: always one of the two.           *)
C17_ProtocolIsHttpOrHttps ==
    HeaderBuilt /\ ~HasSlot(arg.rm, "Protocol") =>
        /\ res.header.Protocol \in {ProtoHTTP, ProtoHTTPS}
        /\ EqualFold(XForwardedProto, ProtoHTTPS) => res.header.Protocol = ProtoHTTPS
        /\ EqualFold(XForwardedProto, ProtoHTTP) => res.header.Protocol = ProtoHTTP
        /\ ~EqualFold(XForwardedProto, ProtoHTTPS) /\ ~EqualFold(XForwardedProto, ProtoHTTP) =>
              res.header.Protocol = IF arg.r.TLS THEN ProtoHTTPS ELSE ProtoHTTP

\* the port segment of the Host of the request buildHeader was given
HostPort == SplitHostPort(arg.r.Host)

\* the Host has a port segment and it is a number
HostPortParses == arg.r.Host # <<>> /\ HostPort.err = NilErr /\ ~Atoi(HostPort.port).err

\* 443 under the protocol https, 80 under any other
DefaultPort == IF res.header.Protocol = ProtoHTTPS THEN 443 ELSE 80

(* C18 as stated: with no port override the port of the fingerprint is the   *)
(* number in the port segment of the Host when there is one and it is a       *)
(* number, and otherwise 443 under the protocol https and 80 under any other. *)
C18_PortOfHostOrDefault ==
    HeaderBuilt /\ ~HasSlot(arg.rm, "Port") =>
        res.header.Port = IF HostPortParses THEN Atoi(HostPort.port).n ELSE DefaultPort

(* C18: with no port override the port of the fingerprint is the number in   *)
(* the port segment of the Host when there is one and it is a number other    *)
(* than -1, and otherwise 443 under the protocol https and 80 under any other.*)
C18_PortOfHostUnlessSentinel ==
    HeaderBuilt /\ ~HasSlot(arg.rm, "Port") =>
        res.header.Port = IF HostPortParses /\ Atoi(HostPort.port).n # -1
                          THEN Atoi(HostPort.port).n
                          ELSE DefaultPort

C18_Witness ==
    /\ HeaderBuilt
    /\ ~HasSlot(arg.rm, "Port")
    /\ HostPortParses
    /\ Atoi(HostPort.port).n = 8080
    /\ res.header.Port = 8080

\* the x-datadome-clientid header of the request buildHeader was given
ClientIDHeader == HeaderGet(arg.r, "x-datadome-clientid")

\* the request buildHeader was given has a cookie named datadome
HasDataDomeCookie == \E i \in 1..Len(arg.r.Cookies) : arg.r.Cookies[i].Name = "datadome"

\* the value of the first cookie named datadome
DataDomeCookie ==
    arg.r.Cookies[CHOOSE i \in 1..Len(arg.r.Cookies) :
                      /\ arg.r.Cookies[i].Name = "datadome"
                      /\ \A j \in 1..(i - 1) : arg.r.Cookies[j].Name # "datadome"].Value

(* C19: with no client id override, the client id of the fingerprint is the  *)
(* x-datadome-clientid header when it is not empty, whether or not there is a *)
(* datadome cookie; the value of the datadome cookie when the header is       *)
(* absent or empty; the empty string when there is neither (each cut to the   *)
(* limit of the field).                                                       *)
C19_ClientIdHeaderThenCookie ==
    HeaderBuilt /\ ~HasSlot(arg.rm, "ClientID") =>
        res.header.ClientID =
            truncateValue("ClientID",
                          IF ClientIDHeader # <<>> THEN ClientIDHeader
                          ELSE IF HasDataDomeCookie THEN DataDomeCookie
                          ELSE <<>>)

C19_Witness ==
    /\ HeaderBuilt
    /\ ~HasSlot(arg.rm, "ClientID")
    /\ ClientIDHeader = SessionHeader
    /\ HasDataDomeCookie
    /\ DataDomeCookie # SessionHeader
    /\ res.header.ClientID = SessionHeader

\* NewClient has returned
Constructed == arg.fn = "NewClient" /\ res.returned

\* the timeout once the options are applied: that of the last ClientWithTimeout,
\* the default when there is none
TimeoutGiven ==
    LET given == SelectSeq(arg.options, LAMBDA o : o.opt = "timeout") IN
    IF given = <<>> THEN DefaultTimeoutValue ELSE given[Len(given)].timeout

(* C20: NewClient returns no client with an empty key or a timeout <= 0:     *)
(* with an empty key it returns nil and ErrKeyMissing; with a key and a       *)
(* timeout <= 0 once the options are applied, nil and ErrWrongTimeoutValue;   *)
(* in every other case a client and a nil error.                              *)
C20_NewClientChecksKeyAndTimeout ==
    Constructed =>
        /\ ~res.c.isNil => res.c.FraudAPIKey # "" /\ res.c.Timeout > 0
        /\ client = res.c
        /\ arg.fraudApiKey = "" => res.c.isNil /\ res.err = <<ErrKeyMissing>>
        /\ arg.fraudApiKey # "" /\ TimeoutGiven <= 0 =>
              res.c.isNil /\ res.err = <<ErrWrongTimeoutValue>>
        /\ arg.fraudApiKey # "" /\ TimeoutGiven > 0 =>
              /\ ~res.c.isNil
              /\ res.err = NilErr
              /\ res.c.FraudAPIKey = arg.fraudApiKey
              /\ res.c.Timeout = TimeoutGiven

C20_Witness ==
    /\ Constructed
    /\ arg.fraudApiKey # ""
    /\ arg.options = <<ClientWithTimeout(DefaultTimeoutValue), ClientWithTimeout(0)>>
    /\ res.c.isNil
    /\ res.err = <<ErrWrongTimeoutValue>>

\* NewClient has returned a client
ClientConstructed == Constructed /\ ~res.c.isNil

\* the endpoint once the options are applied: that of the last
\* ClientWithEndpoint, the default when there is none
EndpointGiven ==
    LET given == SelectSeq(arg.options, LAMBDA o : o.opt = "endpoint") IN
    IF given = <<>> THEN DefaultEndpointValue ELSE given[Len(given)].endpoint

\* the endpoint starts with http:// or https://
HasScheme(endpoint) == HasPrefix(endpoint, SchemeHTTP) \/ HasPrefix(endpoint, SchemeHTTPS)

(* C21: the endpoint of a constructed client starts with http:// or          *)
(* https://: it is the endpoint given when that starts with one of the two,   *)
(* and the endpoint given behind "https://" otherwise; a client constructed   *)
(* with the endpoint of a constructed client has the same endpoint.           *)
C21_EndpointCarriesScheme ==
    ClientConstructed =>
        /\ HasScheme(res.c.Endpoint)
        /\ HasScheme(EndpointGiven) => res.c.Endpoint = EndpointGiven
        /\ ~HasScheme(EndpointGiven) => res.c.Endpoint = SchemeHTTPS \o EndpointGiven
        /\ NewClient(arg.fraudApiKey, <<ClientWithEndpoint(res.c.Endpoint)>>).c.Endpoint
              = res.c.Endpoint

C21_Witness ==
    /\ ClientConstructed
    /\ Len(arg.options) = 2
    /\ arg.options[2] = ClientWithEndpoint(<<"a", ".", "c", "o">>)
    /\ res.c.Endpoint = <<"h", "t", "t", "p", "s", ":", "/", "/", "a", ".", "c", "o">>

\* the path of an action under /v1/validate/ and /v1/collect/
ActionPath(action) ==
    CASE action = "login" -> <<"l", "o", "g", "i", "n">>
      [] action = "registration" -> <<"r", "e", "g", "i", "s", "t", "r", "a", "t", "i", "o", "n">>
      [] action = "account-update" -> <<"a", "c", "c", "o", "u", "n", "t", "/", "u", "p", "d", "a", "t", "e">>
      [] action = "password-update" -> <<"p", "a", "s", "s", "w", "o", "r", "d", "/", "u", "p", "d", "a", "t", "e">>

\* the segment of the operation of the current call
OperationPath ==
    IF IsValidateOp(call.op) THEN <<"v", "a", "l", "i", "d", "a", "t", "e">> ELSE <<"c", "o", "l", "l", "e", "c", "t">>

(* C22 as stated: whatever the event and the operation, the request handed   *)
(* to the transport is a POST to the endpoint of the client followed by       *)
(* /v1/, validate or collect, and the path of the action (login,              *)
(* registration, account/update, password/update), with nothing put in front. *)
C22_TargetsNormalizedEndpoint ==
    \A i \in 1..Len(sent) :
        /\ sent[i].method = "POST"
        /\ sent[i].url = client.Endpoint \o <<"/", "v", "1", "/">> \o OperationPath
                            \o <<"/">> \o ActionPath(call.event.Action)

\* the current call is a ...WithRequestMetadata given a nil metadata
NilMetadataCall == TakesMetadata(call.op) /\ call.rm = NilMetadata

(* C23: a ValidateWithRequestMetadata or CollectWithRequestMetadata given a  *)
(* nil metadata does not panic on it and goes the way of Validate or Collect: *)
(* it fails exactly when the peer address does not split, and every field of  *)
(* the fingerprint it sends is the one derived from the request.              *)
C23_NilMetadataIsNoMetadata ==
    NilMetadataCall =>
        /\ pc # "panicked"
        /\ call.eventInvoked = (SplitHostPort(call.r.RemoteAddr).err = NilErr)
        /\ \A i \in 1..Len(sent) :
              LET header == sent[i].body.Header IN
              \A field \in StringSlots \cup {"Port"} :
                  header[field] =
                      AsField(field, DerivedValue(call.r, header.Protocol, field))

C23_Witness ==
    /\ NilMetadataCall
    /\ call.op = "CollectWithRequestMetadata"
    /\ Len(sent) = 1
    /\ sent[1].body.Header.Addr = <<"1", "2", "7", ".", "0", ".", "0", ".", "1">>
    /\ Done
    /\ ret.err = NilErr

\* the current call is a Collect (with or without metadata) and has returned
CollectDone == Done /\ ~IsValidateOp(call.op)

(* C24: a Collect returns no Response, and never both an error payload and   *)
(* an error: a nil payload and an error when the transport fails or times     *)
(* out, an error payload and a nil error on a status code outside [200,300),  *)
(* and nil, nil on a status code inside it, whatever the body.                *)
C24_CollectReturnsErrorShapeOrNothing ==
    CollectDone =>
        /\ ret.resp.isNil
        /\ ret.payload.isNil \/ ret.err = NilErr
        /\ doErr # NoTransportErr => ret.payload.isNil /\ ret.err # NilErr
        /\ BodyRead /\ ~Is2xx(httpResp.StatusCode) => ~ret.payload.isNil /\ ret.err = NilErr
        /\ BodyRead /\ Is2xx(httpResp.StatusCode) => ret.payload.isNil /\ ret.err = NilErr

C24_Witness ==
    /\ CollectDone
    /\ BodyRead
    /\ Is2xx(httpResp.StatusCode)
    /\ ~DecodableResponse(httpResp.Body)
    /\ ret.payload.isNil
    /\ ret.err = NilErr

\* the constructor of an event has returned
EventBuilt == arg.fn = "NewEvent" /\ res.returned

\* the options given for a field, in the order given
GivenFor(field) == SelectSeq(arg.options, LAMBDA o : o.field = field)

\* the optional fields of the events of a kind
OptionalFields(kind) ==
    CASE kind = "login" -> {"User", "Session", "Authentication"}
      [] kind = "registration" -> {"Session", "Authentication"}
      [] kind = "account-update" -> {"Session", "User", "Authentication"}
      [] kind = "password-update" -> {"Session"}

\* an optional field that no option has set
Unset(field) ==
    CASE field = "User" -> NilUser
      [] field = "Session" -> NilSession
      [] field = "Authentication" -> NilAuthentication

(* C25: an event holds the account, action, status, reason and user its      *)
(* constructor was given, and each optional field holds the value of the last *)
(* option given for it, nil when none was: an option touches no field but its *)
(* own, and giving an option twice is giving it once.                         *)
C25_OptionsSetTheirOwnField ==
    EventBuilt =>
        /\ res.event.Account = arg.account
        /\ res.event.Action = arg.kind
        /\ arg.kind \in {"login", "password-update"} => res.event.Status = arg.status
        /\ arg.kind = "password-update" => res.event.Reason = arg.reason
        /\ arg.kind \in {"registration", "password-update"} => res.event.User = arg.user
        /\ \A field \in OptionalFields(arg.kind) :
              res.event[field] =
                  IF GivenFor(field) = <<>> THEN Unset(field)
                  ELSE GivenFor(field)[Len(GivenFor(field))].v
        /\ \A o \in EventOptions(arg.kind) :
              NewEventOf([arg EXCEPT !.options = Append(arg.options, o) \o <<o>>])
                  = NewEventOf([arg EXCEPT !.options = Append(arg.options, o)])

C25_Witness ==
    /\ EventBuilt
    /\ arg.kind = "login"
    /\ arg.options = <<LoginWithUser(User("user-1")), LoginWithUser(User("user-2"))>>
    /\ res.event.User = User("user-2")
    /\ res.event.Session = NilSession
    /\ res.event.Status = arg.status

\* an account update or registration event is built with the authentication option
AuthenticationGiven ==
    /\ EventBuilt
    /\ arg.kind \in {"account-update", "registration"}
    /\ GivenFor("Authentication") # <<>>

Returns(g) == arg.fn = "go" /\ res[g].pc = "done"

\* the goroutine's call has handed a request to c.httpClient.Do
Issued(g) == arg.fn = "go" /\ res[g].pc \in {"inflight", "reading", "done"} /\ res[g].sent # <<>>

(* what the call of the goroutine issues and returns when it runs alone on *)
(* the client as constructed, given its own request, metadata and outcome  *)
Alone(c, l) ==
    LET s == Started(c, l.call.event, l.call.op, l.call.r, l.call.rm)
        i == Invoked(c, s)
        d == IF l.doErr # NoTransportErr THEN DoFailed(i, l.doErr)
             ELSE DoResponded(i, l.httpResp.StatusCode, l.httpResp.Body)
    IN IF s.pc # "built" THEN s
       ELSE IF i.pc # "inflight" THEN i
       ELSE IF l.pc = "inflight" THEN i
       ELSE IF l.pc = "reading" \/ l.doErr # NoTransportErr THEN d
       ELSE IF l.readErr # "" THEN ReadAllFailed(d, l.readErr)
       ELSE ReadAllSucceeded(d)

(* C27: no call modifies the configuration of the client, and whatever the *)
(* interleaving of the calls of the goroutines, the request a call issues  *)
(* and the values it returns are those of the same call running alone on   *)
(* the client as constructed.                                              *)
C27_ConcurrentCallsAsIfAlone ==
    arg.fn = "go" =>
        /\ client = arg.client
        /\ \A g \in Goroutines :
              (Issued(g) \/ Returns(g)) =>
                  /\ res[g].sent = Alone(arg.client, res[g]).sent
                  /\ res[g].ret = Alone(arg.client, res[g]).ret

(* two calls were in flight together on one client and have returned, one *)
(* with the timeout and one with the decision of the API                  *)
C27_Witness ==
    /\ arg.fn = "go"
    /\ \E g, h \in Goroutines :
          /\ g # h
          /\ Returns(g) /\ Returns(h)
          /\ res[g].sent # <<>> /\ res[h].sent # <<>>
          /\ res[g].call.event # res[h].call.event
          /\ res[g].doErr # NoTransportErr
          /\ res[h].httpResp.stream = "closed"
          /\ res[g].ret # res[h].ret

\* Do returned a response and io.ReadAll failed on its body
ReadFailed == Done /\ arg = NoArg /\ httpResp.stream # "none" /\ readErr # ""

(* C28: when a response is received and reading its body fails, whatever the *)
(* reason (the timeout of the client elapsing during the read included), the *)
(* error returned is not ErrRequestTimeout: Validate returns action allow,   *)
(* status failure and a non-nil error, Collect a nil payload and a non-nil   *)
(* error.                                                                    *)
C28_ReadFailureIsNotTimeout ==
    ReadFailed =>
        /\ ret.err # NilErr
        /\ ~ErrorsIs(ret.err, ErrRequestTimeout)
        /\ ErrorsIs(ret.err, "fail to read response body")
        /\ IsValidateOp(call.op) =>
              /\ ~ret.resp.isNil
              /\ ret.resp.Action = Allow
              /\ ret.resp.Status = Failure
              /\ ret.payload.isNil
        /\ ~IsValidateOp(call.op) =>
              /\ ret.resp.isNil
              /\ ret.payload.isNil

\* a Validate whose response body could not be read in time
C28_Witness ==
    /\ ReadFailed
    /\ IsValidateOp(call.op)
    /\ readErr = ClientTimeoutExceeded
    /\ Is2xx(httpResp.StatusCode)
    /\ ret.resp.Status = Failure

\* the port buildHeader has after the override: *rm.Port if set, getPort(r) if not
PortAfterOverride ==
    IF HasSlot(arg.rm, "Port") THEN arg.rm.slots["Port"] ELSE getPort(arg.r)

\* the protocol buildHeader resolves: *rm.Protocol if set, getProtocol(r) if not
ResolvedProtocol ==
    IF HasSlot(arg.rm, "Protocol") THEN arg.rm.slots["Protocol"] ELSE getProtocol(arg.r)

(* C29: the port of the fingerprint is never -1; when the port after the    *)
(* override is -1 (no port in the Host and no override, or an override of   *)
(* -1), the port of the fingerprint is 443 if the resolved protocol, the    *)
(* override included, is exactly "https" and 80 otherwise, and every other  *)
(* port is kept.                                                            *)
C29_SentinelPortBecomesDefault ==
    HeaderBuilt =>
        /\ res.header.Port # -1
        /\ res.header.Port =
              IF PortAfterOverride # -1 THEN PortAfterOverride
              ELSE IF ResolvedProtocol = <<"h", "t", "t", "p", "s">> THEN 443 ELSE 80

\* an override of -1 on a TLS request whose protocol is overridden to grpc: 80
C29_Witness ==
    /\ HeaderBuilt
    /\ HasSlot(arg.rm, "Port") /\ arg.rm.slots["Port"] = -1
    /\ HasSlot(arg.rm, "Protocol") /\ arg.rm.slots["Protocol"] = ProtoGRPC
    /\ res.header.Protocol = ProtoGRPC
    /\ res.header.Port = 80

\* buildHeader has returned, with a header or an error
HeaderReturned == arg.fn = "buildHeader" /\ res.returned

(* C30: with the address slot set buildHeader returns no error, even when   *)
(* the peer address of the request does not split into host and port, and   *)
(* the address of the fingerprint is the value of the slot, whole; an error *)
(* of buildHeader occurs only with the slot absent.                         *)
C30_AddrOverrideNeverFails ==
    HeaderReturned =>
        /\ HasSlot(arg.rm, "Addr") =>
              /\ res.err = NilErr
              /\ ~res.header.isNil
              /\ res.header.Addr = arg.rm.slots["Addr"]
        /\ res.err # NilErr => ~HasSlot(arg.rm, "Addr")

\* a malformed peer address under an address override
C30_Witness ==
    /\ HeaderReturned
    /\ SplitHostPort(arg.r.RemoteAddr).err # NilErr
    /\ HasSlot(arg.rm, "Addr")
    /\ res.err = NilErr
    /\ res.header.Addr = arg.rm.slots["Addr"]

====
